---- MODULE Spec2Model ----
(***************************************************************************)
(* Kawaii K50V voice engine: ADSR envelope, partial oscillator, voice and  *)
(* voice pool (KawaiiVoice.h, KawaiiProcessor.cpp).                        *)
(*                                                                         *)
(* Real numbers (double) are fixed-point integers in units of 1/One.  One  *)
(* is chosen so that the silence threshold 0.001 is one unit.  Products    *)
(* are rounded away from zero: as in double precision at these magnitudes, *)
(* a product of two non-zero factors is never zero.                        *)
(***************************************************************************)
EXTENDS Integers, Sequences, FiniteSets, TLC

\* ---------------------------------------------------------------- bounds
\* pool size and partial count of the model (6 and 32 in KawaiiCids.h)
kMaxVoices == 2
kMaxPartials == 2

\* ------------------------------------------------------------ fixed point
kSilenceThreshold == 1
One == 1000 * kSilenceThreshold
kAttackTarget == One + One \div 2

Abs(x) == IF x < 0 THEN -x ELSE x
Min(a, b) == IF b < a THEN b ELSE a
Max(a, b) == IF a < b THEN b ELSE a
Clamp(x, lo, hi) == IF x < lo THEN lo ELSE IF hi < x THEN hi ELSE x

\* a / b rounded to nearest, b > 0
RoundDiv(a, b) == IF a >= 0 THEN (2 * a + b) \div (2 * b)
                            ELSE -((2 * (-a) + b) \div (2 * b))

\* a * b of two fixed-point numbers, rounded away from zero
Mul(a, b) ==
  LET p == a * b
  IN IF p >= 0 THEN (p + One - 1) \div One ELSE -((-p + One - 1) \div One)

\* e^x for 0 <= x <= One: Taylor series, term k = term (k-1) * x / k
RECURSIVE ExpSeries(_, _, _, _)
ExpSeries(x, term, k, acc) ==
  IF term = 0 \/ k > 12 THEN acc
  ELSE LET t == RoundDiv(term * x, k * One)
       IN ExpSeries(x, t, k + 1, acc + t)

\* e^n for a natural n <= 10, in thousandths
ExpInt(n) ==
  CASE n = 0 -> 1000 [] n = 1 -> 2718 [] n = 2 -> 7389 [] n = 3 -> 20086
    [] n = 4 -> 54598 [] n = 5 -> 148413 [] n = 6 -> 403429
    [] n = 7 -> 1096633 [] n = 8 -> 2980958 [] n = 9 -> 8103084
    [] OTHER -> 22026466

\* std::exp for an argument x in [-10, 10]
Exp(x) ==
  LET ax == Abs(x)
      n  == Min(ax \div One, 10)
      f  == ExpSeries(ax - n * One, One, 1, One)
      pos == IF n <= 6 THEN RoundDiv(ExpInt(n) * f, 1000)
                       ELSE RoundDiv(ExpInt(n), 1000) * f
  IN IF x >= 0 THEN pos
     ELSE IF n <= 6 THEN RoundDiv(One * One, pos)
     ELSE 0

\* natural logarithm of the bases std::pow is called with, in thousandths
Ln(base) ==
  CASE base = 1000 -> 6908 [] base = 5000 -> 8517 [] base = 10000 -> 9210
    [] OTHER -> 0

\* std::pow(base, x) = e^(x ln base), x fixed point, base a whole number
Pow(base, x) ==
  LET y == RoundDiv(x * Ln(base), 1000)
  IN Exp(Clamp(y, -10 * One, 10 * One))

\* ------------------------------------------------------- ADSREnvelope
Stages == {"Attack", "Decay", "Sustain", "Release", "Idle"}

\* In double arithmetic exp(-x) is exactly 1.0 once x < 2^-54, so a time of
\* 2^54 / sampleRate seconds or more has the coefficient 1.0 - 1.0 = 0.
\* LongTime stands for the times of that size.
LongTime == 1000 * 1000 * One

\* seconds = max(0.001, seconds); coeff = 1 - e^(-1/(seconds * sampleRate)).
\* seconds is fixed point, sampleRate a whole number of Hz; below LongTime
\* the quotient 1/(seconds * sampleRate) is rounded up, so it is positive as
\* in the code.
TimeToCoeff(seconds, sr) ==
  LET s == Max(One \div 1000, seconds)
      x == (One * One + s * sr - 1) \div (s * sr)
  IN IF s >= LongTime THEN One - One ELSE One - Exp(-Min(x, 10 * One))

ADSREnvelope_new ==
  [stage |-> "Idle", currentValue |-> 0,
   attackCoeff |-> One \div 100, decayCoeff |-> One \div 100,
   releaseCoeff |-> One \div 100,
   sustainLevel |-> (7 * One) \div 10, sampleRate |-> 44100]

ADSREnvelope_setSampleRate(e, sr) == [e EXCEPT !.sampleRate = sr]
ADSREnvelope_setAttack(e, seconds) ==
  [e EXCEPT !.attackCoeff = TimeToCoeff(seconds, e.sampleRate)]
ADSREnvelope_setDecay(e, seconds) ==
  [e EXCEPT !.decayCoeff = TimeToCoeff(seconds, e.sampleRate)]
\* mutant: the sustain level is stored unclamped
ADSREnvelope_setSustain_unclamped(e, level) == [e EXCEPT !.sustainLevel = level]
\* mutant: the sustain level handed in is dropped
ADSREnvelope_setSustain_skipped(e, level) == e
ADSREnvelope_setSustain(e, level) ==
  [e EXCEPT !.sustainLevel = Clamp(level, 0, One)]
ADSREnvelope_setRelease(e, seconds) ==
  [e EXCEPT !.releaseCoeff = TimeToCoeff(seconds, e.sampleRate)]

ADSREnvelope_noteOn(e) == [e EXCEPT !.stage = "Attack"]
\* mutant: the release starts from Idle too
ADSREnvelope_noteOff_unguarded(e) == [e EXCEPT !.stage = "Release"]
ADSREnvelope_noteOff(e) ==
  IF e.stage # "Idle" THEN [e EXCEPT !.stage = "Release"] ELSE e

\* mutant: the attack overshoot is not clamped when the stage changes
ADSREnvelope_process_overshoot(e) ==
  CASE e.stage = "Attack" ->
         LET v == e.currentValue + Mul(kAttackTarget - e.currentValue, e.attackCoeff)
         IN IF v >= One THEN [e EXCEPT !.currentValue = v, !.stage = "Decay"]
                        ELSE [e EXCEPT !.currentValue = v]
    [] e.stage = "Decay" ->
         LET v == e.currentValue + Mul(e.sustainLevel - e.currentValue, e.decayCoeff)
         IN IF Abs(v - e.sustainLevel) < kSilenceThreshold
              THEN [e EXCEPT !.currentValue = e.sustainLevel, !.stage = "Sustain"]
              ELSE [e EXCEPT !.currentValue = v]
    [] e.stage = "Sustain" -> [e EXCEPT !.currentValue = e.sustainLevel]
    [] e.stage = "Release" ->
         LET v == e.currentValue + Mul(0 - e.currentValue, e.releaseCoeff)
         IN IF v <= kSilenceThreshold
              THEN [e EXCEPT !.currentValue = 0, !.stage = "Idle"]
              ELSE [e EXCEPT !.currentValue = v]
    [] OTHER -> [e EXCEPT !.currentValue = 0]

ADSREnvelope_process(e) ==
  CASE e.stage = "Attack" ->
         LET v == e.currentValue + Mul(kAttackTarget - e.currentValue, e.attackCoeff)
         IN IF v >= One THEN [e EXCEPT !.currentValue = One, !.stage = "Decay"]
                        ELSE [e EXCEPT !.currentValue = v]
    [] e.stage = "Decay" ->
         LET v == e.currentValue + Mul(e.sustainLevel - e.currentValue, e.decayCoeff)
         IN IF Abs(v - e.sustainLevel) < kSilenceThreshold
              THEN [e EXCEPT !.currentValue = e.sustainLevel, !.stage = "Sustain"]
              ELSE [e EXCEPT !.currentValue = v]
    [] e.stage = "Sustain" -> [e EXCEPT !.currentValue = e.sustainLevel]
    [] e.stage = "Release" ->
         LET v == e.currentValue + Mul(0 - e.currentValue, e.releaseCoeff)
         IN IF v <= kSilenceThreshold
              THEN [e EXCEPT !.currentValue = 0, !.stage = "Idle"]
              ELSE [e EXCEPT !.currentValue = v]
    [] OTHER -> [e EXCEPT !.currentValue = 0]

ADSREnvelope_isActive(e) == e.stage # "Idle"
ADSREnvelope_reset(e) == [e EXCEPT !.stage = "Idle", !.currentValue = 0]

\* ------------------------------------------------------------ Partial
\* phase and level are fixed point, frequency is fixed-point Hz
Partial_new ==
  [phase |-> 0, frequency |-> 0, level |-> One, envelope |-> ADSREnvelope_new]

\* phase after Partial::process(sampleRate); the envelope must be active
PhaseAdvance(phase, frequency, sr) ==
  LET ph == phase + RoundDiv(frequency, sr)
  IN IF ph >= One THEN ph - One ELSE ph

Partial_process(p, sr) ==
  IF ~ADSREnvelope_isActive(p.envelope) THEN p
  ELSE [p EXCEPT !.envelope = ADSREnvelope_process(@),
                 !.phase = PhaseAdvance(p.phase, p.frequency, sr)]

Partial_reset(p) ==
  [p EXCEPT !.phase = 0, !.envelope = ADSREnvelope_reset(@)]

\* ------------------------------------------------------ trigonometry
\* a * b of two fixed-point numbers, rounded to nearest; a may be large
MulR(a, b) ==
  LET sa == IF a < 0 THEN -1 ELSE 1
      aa == Abs(a)
  IN sa * ((aa \div One) * b + RoundDiv((aa % One) * b, One))

\* sin(pi * t) for 0 <= t <= 1 (Bhaskara's rational approximation)
SinHalfTurn(t) ==
  LET u == MulR(t, One - t)
  IN RoundDiv(16 * u * One, 5 * One - 4 * u)

\* std::sin(2 * pi * phase) for a phase in [0,1)
SinTurn(phase) ==
  IF phase < One \div 2 THEN SinHalfTurn(2 * phase)
  ELSE -SinHalfTurn(2 * phase - One)

\* std::tan(pi * conorm) for 0 <= conorm < 1/2
TanHalfTurn(conorm) ==
  RoundDiv(SinHalfTurn(conorm) * One, Max(1, SinHalfTurn(One \div 2 - conorm)))

\* ------------------------------------------------------ ParamSmoother
ParamSmoother_new(initial) ==
  [current |-> initial, target |-> initial, coeff |-> One \div 100]

\* coeff = 1 - e^(-2 pi / (0.005 * sr)); 2 pi * 200 = 1256.637
ParamSmoother_setSampleRate(sm, sr) ==
  [sm EXCEPT !.coeff =
     One - Exp(-Min(RoundDiv(1256637 * (One \div 1000), sr), 10 * One))]
ParamSmoother_setTarget(sm, t) == [sm EXCEPT !.target = t]
ParamSmoother_process(sm) ==
  [sm EXCEPT !.current = sm.current + Mul(sm.target - sm.current, sm.coeff)]
ParamSmoother_snap(sm) == [sm EXCEPT !.current = sm.target]

\* --------------------------------------------------------- CytomicSVF
Modes == {"LP", "HP", "BP", "Notch", "Peak", "Allpass", "Bell", "LowShelf",
          "HighShelf"}

CytomicSVF_new ==
  [ic1eq |-> 0, ic2eq |-> 0, g |-> 0, k |-> 2 * One, gk |-> 2 * One,
   a1 |-> 0, a2 |-> 0, a3 |-> 0, m0 |-> 0, m1 |-> 0, m2 |-> One,
   da1 |-> 0, da2 |-> 0, da3 |-> 0, dm0 |-> 0, dm1 |-> 0, dm2 |-> 0,
   firstBlock |-> TRUE]

\* <<m0, m1, m2>> of a mode
setMixCoeffs(mode, k, amp) ==
  CASE mode = "LP" -> <<0, 0, One>>
    [] mode = "BP" -> <<0, One, 0>>
    [] mode = "HP" -> <<One, -k, -One>>
    [] mode = "Notch" -> <<One, -k, 0>>
    [] mode = "Peak" -> <<One, -k, -2 * One>>
    [] mode = "Allpass" -> <<One, -2 * k, 0>>
    [] mode = "Bell" -> <<One, MulR(k, MulR(amp, amp) - One), 0>>
    [] mode = "LowShelf" ->
         <<One, MulR(k, amp - One), MulR(amp, amp) - One>>
    [] mode = "HighShelf" ->
         <<MulR(amp, amp), MulR(MulR(k, One - amp), amp), One - MulR(amp, amp)>>
    [] OTHER -> <<0, 0, One>>

\* freq is fixed-point Hz, sr the sample rate in Hz (srInv = 1/sr).
\* a2 = g*a1 and a3 = g*a2 are computed as g/(1+g*gk) and g*g/(1+g*gk),
\* which keeps their precision when a1 is below the fixed-point unit.
CytomicSVF_setCoeff(f, mode, freq, res, sr, bellShelfAmp) ==
  LET conorm == Clamp(RoundDiv(freq, sr), 0, (499 * One) \div 1000)
      r == Clamp(res, 0, (98 * One) \div 100)
      amp == Max(bellShelfAmp, One \div 1000)
      g == TanHalfTurn(conorm)
      k0 == 2 * One - 2 * r
      k == IF mode = "Bell" THEN RoundDiv(k0 * One, amp) ELSE k0
      gk == g + k
      den == One + MulR(g, gk)
      gg == MulR(g, g)
      m == setMixCoeffs(mode, k, amp)
  IN [f EXCEPT !.g = g, !.k = k, !.gk = gk,
               !.a1 = RoundDiv(One * One, den),
               !.a2 = IF g > One THEN RoundDiv(g, Max(1, RoundDiv(den, One)))
                                 ELSE RoundDiv(g * One, den),
               !.a3 = IF gg > One THEN RoundDiv(gg, Max(1, RoundDiv(den, One)))
                                  ELSE RoundDiv(gg * One, den),
               !.m0 = m[1], !.m1 = m[2], !.m2 = m[3]]

\* mutant: the coefficients are not set back to the prior values, the ramp
\* starts at the target
BlockDeltas_fromTarget(f, t, blockSize) ==
  LET p == IF f.firstBlock THEN t ELSE f
  IN [t EXCEPT !.firstBlock = FALSE,
               !.da1 = RoundDiv(t.a1 - p.a1, blockSize),
               !.da2 = RoundDiv(t.a2 - p.a2, blockSize),
               !.da3 = RoundDiv(t.a3 - p.a3, blockSize),
               !.dm0 = RoundDiv(t.m0 - p.m0, blockSize),
               !.dm1 = RoundDiv(t.m1 - p.m1, blockSize),
               !.dm2 = RoundDiv(t.m2 - p.m2, blockSize)]

\* the second half of setCoeffForBlock: f the filter before the call, t the
\* target coefficients setCoeff computed from it
BlockDeltas(f, t, blockSize) ==
  LET p == IF f.firstBlock THEN t ELSE f
  IN [t EXCEPT !.firstBlock = FALSE,
               !.da1 = RoundDiv(t.a1 - p.a1, blockSize),
               !.da2 = RoundDiv(t.a2 - p.a2, blockSize),
               !.da3 = RoundDiv(t.a3 - p.a3, blockSize),
               !.dm0 = RoundDiv(t.m0 - p.m0, blockSize),
               !.dm1 = RoundDiv(t.m1 - p.m1, blockSize),
               !.dm2 = RoundDiv(t.m2 - p.m2, blockSize),
               !.a1 = p.a1, !.a2 = p.a2, !.a3 = p.a3,
               !.m0 = p.m0, !.m1 = p.m1, !.m2 = p.m2]

CytomicSVF_setCoeffForBlock(f, mode, freq, res, sr, blockSize, bellShelfAmp) ==
  BlockDeltas(f, CytomicSVF_setCoeff(f, mode, freq, res, sr, bellShelfAmp),
              blockSize)

\* [f |-> the filter after the step, out |-> the sample returned]
CytomicSVF_step(f, vin) ==
  LET v3 == vin - f.ic2eq
      v1 == MulR(f.a1, f.ic1eq) + MulR(f.a2, v3)
      v2 == f.ic2eq + MulR(f.a2, f.ic1eq) + MulR(f.a3, v3)
  IN [f |-> [f EXCEPT !.ic1eq = 2 * v1 - f.ic1eq, !.ic2eq = 2 * v2 - f.ic2eq],
      out |-> MulR(f.m0, vin) + MulR(f.m1, v1) + MulR(f.m2, v2)]

CytomicSVF_processBlockStep(f, vin) ==
  LET r == CytomicSVF_step(f, vin)
  IN [f |-> [r.f EXCEPT !.a1 = @ + f.da1, !.a2 = @ + f.da2, !.a3 = @ + f.da3,
                        !.m0 = @ + f.dm0, !.m1 = @ + f.dm1, !.m2 = @ + f.dm2],
      out |-> r.out]

CytomicSVF_init(f) == [f EXCEPT !.ic1eq = 0, !.ic2eq = 0, !.firstBlock = TRUE]

\* -------------------------------------------------------- KawaiiVoice
PartialIds == 0 .. (kMaxPartials - 1)
VoiceIds == 0 .. (kMaxVoices - 1)

KawaiiVoice_new ==
  [noteNumber |-> -1, velocity |-> 0, sampleRate |-> 44100,
   partials |-> [i \in PartialIds |-> Partial_new],
   filter |-> CytomicSVF_new,
   filterEnvelope |-> ADSREnvelope_new,
   cutoffSmoother |-> ParamSmoother_new(One),
   resoSmoother |-> ParamSmoother_new(0),
   filterEnvDepth |-> 0, filterKeytrack |-> 0, filterMode |-> "LP"]

KawaiiVoice_setSampleRate(v, sr) ==
  [v EXCEPT !.sampleRate = sr,
            !.partials = [i \in PartialIds |->
               [v.partials[i] EXCEPT !.envelope = ADSREnvelope_setSampleRate(@, sr)]],
            !.filterEnvelope = ADSREnvelope_setSampleRate(@, sr),
            !.cutoffSmoother = ParamSmoother_setSampleRate(@, sr),
            !.resoSmoother = ParamSmoother_setSampleRate(@, sr)]

\* 2^(r/12) for r in 0..11, in thousandths
SemitoneRatio(r) ==
  CASE r = 0 -> 1000 [] r = 1 -> 1059 [] r = 2 -> 1122 [] r = 3 -> 1189
    [] r = 4 -> 1260 [] r = 5 -> 1335 [] r = 6 -> 1414 [] r = 7 -> 1498
    [] r = 8 -> 1587 [] r = 9 -> 1682 [] r = 10 -> 1782 [] OTHER -> 1888

RECURSIVE Pow2(_)
Pow2(n) == IF n <= 0 THEN 1 ELSE 2 * Pow2(n - 1)

\* 440 * 2^((note - 69) / 12) in fixed-point Hz, for notes 0..127
Fundamental(note) ==
  LET d == note - 69
      oct == d \div 12
      r == d % 12
      base == RoundDiv(440 * SemitoneRatio(r) * One, 1000)
  IN IF oct >= 0 THEN base * Pow2(oct) ELSE RoundDiv(base, Pow2(-oct))

\* mutant: the new note leaves the oscillator phases where they were
KawaiiVoice_noteOn_keepPhase(v, note, vel) ==
  LET fundamental == Fundamental(note)
      nyquist == (v.sampleRate * One) \div 2
  IN [v EXCEPT
        !.noteNumber = note,
        !.velocity = vel,
        !.partials = [i \in PartialIds |->
           [v.partials[i] EXCEPT
              !.frequency = IF fundamental * (i + 1) < nyquist
                              THEN fundamental * (i + 1) ELSE 0,
              !.envelope = ADSREnvelope_noteOn(@)]],
        !.filterEnvelope = ADSREnvelope_noteOn(@),
        !.filter = CytomicSVF_init(@),
        !.cutoffSmoother = ParamSmoother_snap(@),
        !.resoSmoother = ParamSmoother_snap(@)]

KawaiiVoice_noteOn(v, note, vel) ==
  LET fundamental == Fundamental(note)
      nyquist == (v.sampleRate * One) \div 2
  IN [v EXCEPT
        !.noteNumber = note,
        !.velocity = vel,
        !.partials = [i \in PartialIds |->
           [v.partials[i] EXCEPT
              !.frequency = IF fundamental * (i + 1) < nyquist
                              THEN fundamental * (i + 1) ELSE 0,
              !.phase = 0,
              !.envelope = ADSREnvelope_noteOn(@)]],
        !.filterEnvelope = ADSREnvelope_noteOn(@),
        !.filter = CytomicSVF_init(@),
        !.cutoffSmoother = ParamSmoother_snap(@),
        !.resoSmoother = ParamSmoother_snap(@)]

KawaiiVoice_noteOff(v) ==
  [v EXCEPT
     !.partials = [i \in PartialIds |->
        [v.partials[i] EXCEPT !.envelope = ADSREnvelope_noteOff(@)]],
     !.filterEnvelope = ADSREnvelope_noteOff(@)]

KawaiiVoice_isActive(v) ==
  \E i \in PartialIds : ADSREnvelope_isActive(v.partials[i].envelope)

\* 20 * 1000^norm + depth * env * 10000 + keytrack * (note - 60) * 100,
\* clamped to [20, 20000] Hz
computeEffectiveCutoff(v, smoothedNorm, envValue) ==
  LET baseCutoffHz == 20 * Pow(1000, smoothedNorm)
      envMod == MulR(v.filterEnvDepth, envValue) * 10000
      keyMod == v.filterKeytrack * (v.noteNumber - 60) * 100
  IN Clamp(baseCutoffHz + envMod + keyMod, 20 * One, 20000 * One)

\* the sample Partial::process returns, computed before the state advances
Partial_output(p) ==
  IF ~ADSREnvelope_isActive(p.envelope) THEN 0
  ELSE MulR(MulR(SinTurn(p.phase), p.level),
            ADSREnvelope_process(p.envelope).currentValue)

RECURSIVE SumPartials(_, _)
SumPartials(v, i) ==
  IF i = kMaxPartials THEN 0
  ELSE Partial_output(v.partials[i]) + SumPartials(v, i + 1)

\* CPU path, one sample: [v |-> the voice after, out |-> outLeft = outRight]
KawaiiVoice_process(v) ==
  LET sum == SumPartials(v, 0)
      sample == RoundDiv(MulR(sum, v.velocity), kMaxPartials)
      fe == ADSREnvelope_process(v.filterEnvelope)
      cs == ParamSmoother_process(v.cutoffSmoother)
      rs == ParamSmoother_process(v.resoSmoother)
      v1 == [v EXCEPT
               !.partials = [i \in PartialIds |->
                               Partial_process(v.partials[i], v.sampleRate)],
               !.filterEnvelope = fe,
               !.cutoffSmoother = cs,
               !.resoSmoother = rs]
      cutoffHz == computeEffectiveCutoff(v1, cs.current, fe.currentValue)
      res == Clamp(rs.current, 0, (98 * One) \div 100)
      st == CytomicSVF_step(
              CytomicSVF_setCoeff(v.filter, v.filterMode, cutoffHz, res,
                                  v.sampleRate, One), sample)
  IN [v |-> [v1 EXCEPT !.filter = st.f], out |-> st.out]

\* ---------------------------------------------------- parameter table
kPartialParamBase == 2
kPartialParamStride == 5
kPartialOffLevel == 0
kPartialOffAttack == 1
kPartialOffDecay == 2
kPartialOffSustain == 3
kPartialOffRelease == 4
partialParam(i, offset) == kPartialParamBase + i * kPartialParamStride + offset
kFilterParamBase == kPartialParamBase + kMaxPartials * kPartialParamStride
kNumFilterTypes == 4
kParamMasterVolume == 0
kParamMasterTune == 1
kParamFilterType == kFilterParamBase
kParamFilterCutoff == kFilterParamBase + 1
kParamFilterReso == kFilterParamBase + 2
kParamFilterEnvAtk == kFilterParamBase + 3
kParamFilterEnvDec == kFilterParamBase + 4
kParamFilterEnvSus == kFilterParamBase + 5
kParamFilterEnvRel == kFilterParamBase + 6
kParamFilterEnvDep == kFilterParamBase + 7
kParamFilterKeytrk == kFilterParamBase + 8
kNumParams == kFilterParamBase + 9
ParamIds == 0 .. (kNumParams - 1)

kEnvAttackMin == 1
kEnvAttackMax == 5000
kEnvDecayMin == 1
kEnvDecayMax == 10000
kEnvReleaseMin == 1
kEnvReleaseMax == 10000

\* minMs * pow(maxMs / minMs, normalized), in fixed-point milliseconds
normalizedToMs(normalized, minMs, maxMs) ==
  minMs * Pow(maxMs \div minMs, normalized)

\* the parameter array the constructor leaves
KawaiiProcessor_params ==
  [id \in ParamIds |->
     IF id = kParamMasterVolume THEN (7 * One) \div 10
     ELSE IF id = kParamMasterTune THEN 0
     ELSE IF id < kFilterParamBase THEN
       LET i == (id - kPartialParamBase) \div kPartialParamStride
           off == (id - kPartialParamBase) % kPartialParamStride
       IN CASE off = kPartialOffLevel -> RoundDiv(One, i + 1)
            [] off = kPartialOffAttack -> One \div 100
            [] off = kPartialOffDecay -> (3 * One) \div 10
            [] off = kPartialOffSustain -> (8 * One) \div 10
            [] OTHER -> (3 * One) \div 10
     ELSE CASE id = kParamFilterType -> 0
            [] id = kParamFilterCutoff -> One
            [] id = kParamFilterReso -> 0
            [] id = kParamFilterEnvAtk -> One \div 100
            [] id = kParamFilterEnvDec -> (3 * One) \div 10
            [] id = kParamFilterEnvSus -> 0
            [] id = kParamFilterEnvRel -> (3 * One) \div 10
            [] id = kParamFilterEnvDep -> One \div 2
            [] OTHER -> 0]

\* static_cast<int>(x) of a non-negative fixed-point number
ToInt(x) == x \div One

FilterModeOf(filterType) ==
  CASE filterType = 0 -> "LP" [] filterType = 1 -> "HP"
    [] filterType = 2 -> "BP" [] filterType = 3 -> "Notch" [] OTHER -> "LP"

\* seconds of an envelope time parameter
ParamSeconds(normalized, minMs, maxMs) ==
  RoundDiv(normalizedToMs(normalized, minMs, maxMs), 1000)

\* the voices after updateParameters pushed the parameter array ps into them
updateParameters(ps, vs) ==
  LET filterTypeInt == ToInt(ps[kParamFilterType] * (kNumFilterTypes - 1) + One \div 2)
      filterType == Clamp(filterTypeInt, 0, kNumFilterTypes - 1)
      fAtk == ParamSeconds(ps[kParamFilterEnvAtk], kEnvAttackMin, kEnvAttackMax)
      fDec == ParamSeconds(ps[kParamFilterEnvDec], kEnvDecayMin, kEnvDecayMax)
      fRel == ParamSeconds(ps[kParamFilterEnvRel], kEnvReleaseMin, kEnvReleaseMax)
      filterEnvDepth == (ps[kParamFilterEnvDep] - One \div 2) * 2
      setPartial(pt, i) ==
        [pt EXCEPT
           !.level = ps[partialParam(i, kPartialOffLevel)],
           !.envelope =
              ADSREnvelope_setRelease(
               ADSREnvelope_setSustain(
                ADSREnvelope_setDecay(
                 ADSREnvelope_setAttack(@,
                   ParamSeconds(ps[partialParam(i, kPartialOffAttack)],
                                kEnvAttackMin, kEnvAttackMax)),
                 ParamSeconds(ps[partialParam(i, kPartialOffDecay)],
                              kEnvDecayMin, kEnvDecayMax)),
                ps[partialParam(i, kPartialOffSustain)]),
               ParamSeconds(ps[partialParam(i, kPartialOffRelease)],
                            kEnvReleaseMin, kEnvReleaseMax))]
  IN [n \in VoiceIds |->
        [vs[n] EXCEPT
           !.partials = [i \in PartialIds |-> setPartial(vs[n].partials[i], i)],
           !.cutoffSmoother = ParamSmoother_setTarget(@, ps[kParamFilterCutoff]),
           !.resoSmoother = ParamSmoother_setTarget(@, ps[kParamFilterReso]),
           !.filterMode = FilterModeOf(filterType),
           !.filterEnvelope =
              ADSREnvelope_setRelease(
               ADSREnvelope_setSustain(
                ADSREnvelope_setDecay(
                 ADSREnvelope_setAttack(@, fAtk), fDec),
                ps[kParamFilterEnvSus]), fRel),
           !.filterEnvDepth = filterEnvDepth,
           !.filterKeytrack = ps[kParamFilterKeytrk]]]

\* ------------------------------------------------------- note events
NoteOnEvent(pitch, velocity) ==
  [type |-> "kNoteOnEvent", pitch |-> pitch, velocity |-> velocity]
NoteOffEvent(pitch) ==
  [type |-> "kNoteOffEvent", pitch |-> pitch, velocity |-> 0]
NoEvent == [type |-> "none", pitch |-> -1, velocity |-> 0]

\* mutant: velocity 0 releases every active voice, whatever its note
NoteOnVelocityZero_everyNote(vs, pitch) ==
  [n \in VoiceIds |->
     IF KawaiiVoice_isActive(vs[n]) THEN KawaiiVoice_noteOff(vs[n]) ELSE vs[n]]

\* the kNoteOnEvent branch taken for velocity 0
NoteOnVelocityZero(vs, pitch) ==
  [n \in VoiceIds |->
     IF vs[n].noteNumber = pitch /\ KawaiiVoice_isActive(vs[n])
       THEN KawaiiVoice_noteOff(vs[n]) ELSE vs[n]]

\* the kNoteOffEvent branch
NoteOffBranch(vs, pitch) ==
  [n \in VoiceIds |->
     IF vs[n].noteNumber = pitch /\ KawaiiVoice_isActive(vs[n])
       THEN KawaiiVoice_noteOff(vs[n]) ELSE vs[n]]

RECURSIVE LastInactive(_, _)
\* mutant: the scan keeps going and ends on the last voice that is not active
LastInactive(vs, n) ==
  IF n = kMaxVoices THEN -1
  ELSE LET later == LastInactive(vs, n + 1)
       IN IF later # -1 THEN later
          ELSE IF ~KawaiiVoice_isActive(vs[n]) THEN n ELSE -1

\* the scan for a free voice: index of the first voice from n on that is
\* not active, -1 (target stays nullptr) if there is none
RECURSIVE FirstInactive(_, _)
FirstInactive(vs, n) ==
  IF n = kMaxVoices THEN -1
  ELSE IF ~KawaiiVoice_isActive(vs[n]) THEN n
  ELSE FirstInactive(vs, n + 1)

\* the voice a NoteOn is given to when the scan found none
StealIndex == 0

\* [voices, target, stole] after processEvent(ev); tg is the target before
processEvent(vs, tg, ev) ==
  IF ev.type = "kNoteOnEvent" THEN
    IF ev.velocity = 0
      THEN [voices |-> NoteOnVelocityZero(vs, ev.pitch), target |-> tg,
            stole |-> FALSE]
      ELSE LET found == FirstInactive(vs, 0)
               t == IF found = -1 THEN StealIndex ELSE found
           IN [voices |-> [vs EXCEPT ![t] =
                             KawaiiVoice_noteOn(vs[t], ev.pitch, ev.velocity)],
               target |-> t, stole |-> (found = -1)]
  ELSE IF ev.type = "kNoteOffEvent" THEN
    [voices |-> NoteOffBranch(vs, ev.pitch), target |-> tg, stole |-> FALSE]
  ELSE [voices |-> vs, target |-> tg, stole |-> FALSE]

\* ------------------------------------------------------ output samples
\* the double and float value that is not a number: every sum and product
\* with it is NaN again and every comparison with it is false
NaN == 2147483647

RECURSIVE FloatQuantum(_, _)
\* the spacing of the floats around a fixed-point number of magnitude a:
\* a float keeps 24 significant bits
FloatQuantum(a, q) == IF a < 16777216 * q THEN q ELSE FloatQuantum(a, 2 * q)

\* static_cast<float>(x): the nearest float, a tie going to the even one
ToFloat(x) ==
  IF x = NaN THEN NaN
  ELSE IF Abs(x) < 16777216 THEN x
  ELSE LET q == FloatQuantum(Abs(x), 1)
           lo == Abs(x) \div q
           r == Abs(x) % q
           m == IF 2 * r > q \/ (2 * r = q /\ lo % 2 = 1) THEN lo + 1 ELSE lo
       IN IF x < 0 THEN -(m * q) ELSE m * q

\* sample * masterVol
ScaleSample(sample, masterVol) ==
  IF sample = NaN \/ masterVol = NaN THEN NaN ELSE MulR(sample, masterVol)

\* outputs[ch][s] += static_cast<float>(sample * masterVol)
MixSample(acc, sample, masterVol) ==
  IF acc = NaN \/ ToFloat(ScaleSample(sample, masterVol)) = NaN THEN NaN
  ELSE ToFloat(acc + ToFloat(ScaleSample(sample, masterVol)))

\* std::clamp(x, -1.0f, 1.0f): (x < lo) ? lo : (hi < x) ? hi : x
ClampSample(x) ==
  IF x = NaN THEN NaN
  ELSE IF x < -One THEN -One ELSE IF One < x THEN One ELSE x

\* the clamp loop over a channel buffer
ClampBuffer(buf) == [s \in 1 .. Len(buf) |-> ClampSample(buf[s])] \o <<>>

\* memset(outputs[ch], 0, numSamples * sizeof(float))
ZeroBuffer(numSamples) == [s \in 1 .. numSamples |-> 0] \o <<>>

\* -------------------------------------------------------- CPU render
RECURSIVE VoiceBlock(_, _)
\* [v |-> the voice after n consecutive calls of KawaiiVoice::process,
\*  out |-> the samples they returned]. The run is evaluated by halves; a first
\* half that ends in the state it started from is followed by an identical
\* second half
VoiceBlock(v, n) ==
  IF n = 0 THEN [v |-> v, out |-> <<>>]
  ELSE IF n = 1
    THEN LET r == KawaiiVoice_process(v) IN [v |-> r.v, out |-> <<r.out>>]
  ELSE LET first == VoiceBlock(v, n \div 2)
       IN IF first.v = v /\ n % 2 = 0
            THEN [v |-> v, out |-> first.out \o first.out]
            ELSE LET second == VoiceBlock(first.v, n - n \div 2)
                 IN [v |-> second.v, out |-> first.out \o second.out]

\* the voice after n consecutive calls of KawaiiVoice::process
VoiceRun(v, n) == VoiceBlock(v, n).v

\* outputs[ch][s] += static_cast<float>(sample * masterVol) for the samples
\* `out` one voice produced for the start of the buffer
MixBuffer(buf, out, masterVol) ==
  [s \in 1 .. Len(buf) |->
     IF s <= Len(out) THEN MixSample(buf[s], out[s], masterVol) ELSE buf[s]]
  \o <<>>

\* acc is [voices, buf]; voice n has produced blk = [v, out]
MixVoice(acc, n, blk, masterVol) ==
  [voices |-> [acc.voices EXCEPT ![n] = blk.v],
   buf |-> MixBuffer(acc.buf, blk.out, masterVol)]

RECURSIVE CpuRender(_, _, _, _)
\* the voice loop of processBlockCPU from voice n on
CpuRender(acc, n, numSamples, masterVol) ==
  IF n = kMaxVoices THEN acc
  ELSE IF ~KawaiiVoice_isActive(acc.voices[n])
    THEN CpuRender(acc, n + 1, numSamples, masterVol)
  ELSE CpuRender(MixVoice(acc, n, VoiceBlock(acc.voices[n], numSamples),
                          masterVol),
                 n + 1, numSamples, masterVol)

\* the final clamp loop
ClampOutputs(acc) == [voices |-> acc.voices, outputs |-> ClampBuffer(acc.buf)]

\* [voices, outputs] after processBlockCPU; both channels hold the same samples
processBlockCPU(vs, numSamples, masterVol) ==
  ClampOutputs(CpuRender([voices |-> vs, buf |-> ZeroBuffer(numSamples)], 0,
                         numSamples, masterVol))

\* -------------------------------------------------------- GPU render
\* samples per filter sub-block (32 in the source)
kSubBlockSize == 8

\* The adapter behind MetalSineBank.h, from its contract: processBlock takes
\* the current block and hands back the block submitted by the call before,
\* nothing on the first call after init.
MetalSineBank_new ==
  [available |-> FALSE, maxBlockSize |-> 0,
   prevNumVoices |-> 0, prevNumSamples |-> 0, prevOutput |-> <<>>]

\* init(): gpuOk tells whether Metal could be set up
MetalSineBank_init(gpuOk, maxBlock) ==
  [available |-> gpuOk, maxBlockSize |-> maxBlock,
   prevNumVoices |-> 0, prevNumSamples |-> 0, prevOutput |-> <<>>]

MetalSineBank_shutdown(bank) == MetalSineBank_new
MetalSineBank_isAvailable(bank) == bank.available
MetalSineBank_getLatencySamples(bank) == bank.maxBlockSize

\* the kernel: sample s of a GPU voice is the sum over its oscillators of
\* sin(2 pi (phaseStart + s * phaseIncrement)) * level * env[s], times the
\* voice's velocityScale
\* over the oscillators o, o + 1, ... below last; array element i of the
\* source is element i + 1 of the sequences
RECURSIVE KernelSum(_, _, _, _, _, _)
KernelSum(oscParams, envValues, o, last, smp, numSamples) ==
  IF o >= last THEN 0
  ELSE LET osc == oscParams[o + 1]
           ph == (osc.phaseStart + smp * osc.phaseIncrement) % One
       IN MulR(MulR(SinTurn(ph), osc.level),
               envValues[o * numSamples + smp + 1])
          + KernelSum(oscParams, envValues, o + 1, last, smp, numSamples)

\* oscParams: the oscillators [phaseStart, phaseIncrement, level] grouped by
\* voice; envValues: [oscillator * numSamples + sampleIdx]; descs: one
\* [startOsc, numOsc, velocityScale] per GPU voice
MetalSineBank_processBlock(bank, oscParams, envValues, descs, numSamples) ==
  [bank |-> [bank EXCEPT
       !.prevNumVoices = Len(descs),
       !.prevNumSamples = numSamples,
       !.prevOutput =
          [g \in 1 .. Len(descs) |->
             [smp \in 1 .. numSamples |->
                MulR(KernelSum(oscParams, envValues, descs[g].startOsc,
                               descs[g].startOsc + descs[g].numOsc, smp - 1,
                               numSamples),
                     descs[g].velocityScale)]]],
   prevOutput |-> bank.prevOutput,
   prevNumVoices |-> bank.prevNumVoices,
   prevNumSamples |-> bank.prevNumSamples]

RECURSIVE EnvelopeRun(_, _)
\* [e |-> the envelope after n process() calls, values |-> what they
\* returned]; evaluated by halves, and a first half that ends in the state
\* it started from is followed by an identical second half
EnvelopeRun(e, n) ==
  IF n = 0 THEN [e |-> e, values |-> <<>>]
  ELSE IF n = 1
    THEN LET after == ADSREnvelope_process(e)
         IN [e |-> after, values |-> <<after.currentValue>>]
  ELSE LET first == EnvelopeRun(e, n \div 2)
       IN IF first.e = e /\ n % 2 = 0
            THEN [e |-> e, values |-> first.values \o first.values]
            ELSE LET second == EnvelopeRun(first.e, n - n \div 2)
                 IN [e |-> second.e, values |-> first.values \o second.values]

\* Phase 1 for one partial with an active envelope
GpuPartial(pt, numSamples, sr) ==
  LET run == EnvelopeRun(pt.envelope, numSamples)
      advanced == pt.phase + numSamples * RoundDiv(pt.frequency, sr)
  IN [partial |-> [pt EXCEPT !.envelope = run.e,
                             !.phase = advanced - ToInt(advanced) * One],
      osc |-> [phaseStart |-> pt.phase,
               phaseIncrement |-> RoundDiv(pt.frequency, sr),
               level |-> pt.level],
      envValues |-> run.values]

RECURSIVE GpuVoiceOscs(_, _, _)
\* what a voice appends to gpuOscParams and gpuEnvValues: the oscillators
\* and envelope values of its partials i, i + 1, ... whose envelope was
\* active, in order
GpuVoiceOscs(v, done, i) ==
  IF i = kMaxPartials THEN [oscParams |-> <<>>, envValues |-> <<>>]
  ELSE IF ~ADSREnvelope_isActive(v.partials[i].envelope)
    THEN GpuVoiceOscs(v, done, i + 1)
  ELSE LET rest == GpuVoiceOscs(v, done, i + 1)
       IN [oscParams |-> <<done[i].osc>> \o rest.oscParams,
           envValues |-> done[i].envValues \o rest.envValues]

\* Phase 1 for one active voice, voiceStartOsc the oscillators before it
GpuVoice(v, voiceStartOsc, numSamples, sr) ==
  LET done == [i \in PartialIds |->
                 IF ~ADSREnvelope_isActive(v.partials[i].envelope)
                   THEN [partial |-> v.partials[i]]
                   ELSE GpuPartial(v.partials[i], numSamples, sr)]
      oscs == GpuVoiceOscs(v, done, 0)
  IN [voice |-> [v EXCEPT !.partials = [i \in PartialIds |-> done[i].partial]],
      oscParams |-> oscs.oscParams,
      envValues |-> oscs.envValues,
      desc |-> [startOsc |-> voiceStartOsc,
                numOsc |-> Len(oscs.oscParams),
                velocityScale |-> RoundDiv(v.velocity, kMaxPartials)]]

RECURSIVE GpuPhase1_allVoices(_, _, _, _, _)
\* mutant: a voice that is not active is submitted too, with no oscillator
GpuPhase1_allVoices(vs, n, numOsc, numSamples, sr) ==
  IF n = kMaxVoices
    THEN [voices |-> vs, oscParams |-> <<>>, envValues |-> <<>>,
          descs |-> <<>>, voiceMap |-> <<>>]
  ELSE LET one == GpuVoice(vs[n], numOsc, numSamples, sr)
           rest == GpuPhase1_allVoices([vs EXCEPT ![n] = one.voice], n + 1,
                                       numOsc + Len(one.oscParams), numSamples,
                                       sr)
       IN [voices |-> rest.voices,
           oscParams |-> one.oscParams \o rest.oscParams,
           envValues |-> one.envValues \o rest.envValues,
           descs |-> <<one.desc>> \o rest.descs,
           voiceMap |-> <<n>> \o rest.voiceMap]

RECURSIVE GpuPhase1(_, _, _, _, _)
\* Phase 1 from voice n on, numOsc oscillators collected before it:
\* [voices, oscParams, envValues, descs, voiceMap] with what the voices
\* n, n + 1, ... append to gpuOscParams, gpuEnvValues, gpuVoiceDescs and
\* currentVoiceMap
GpuPhase1(vs, n, numOsc, numSamples, sr) ==
  IF n = kMaxVoices
    THEN [voices |-> vs, oscParams |-> <<>>, envValues |-> <<>>,
          descs |-> <<>>, voiceMap |-> <<>>]
  ELSE IF ~KawaiiVoice_isActive(vs[n])
    THEN GpuPhase1(vs, n + 1, numOsc, numSamples, sr)
  ELSE LET one == GpuVoice(vs[n], numOsc, numSamples, sr)
           rest == GpuPhase1([vs EXCEPT ![n] = one.voice], n + 1,
                             numOsc + Len(one.oscParams), numSamples, sr)
       IN [voices |-> rest.voices,
           oscParams |-> one.oscParams \o rest.oscParams,
           envValues |-> one.envValues \o rest.envValues,
           descs |-> <<one.desc>> \o rest.descs,
           voiceMap |-> <<n>> \o rest.voiceMap]

RECURSIVE FilterAdvance(_, _)
\* n times: processFilterEnvelope, processFilterCutoffSmooth,
\* processFilterResoSmooth; evaluated by halves like EnvelopeRun
FilterAdvance(v, n) ==
  IF n = 0 THEN v
  ELSE IF n = 1
    THEN [v EXCEPT !.filterEnvelope = ADSREnvelope_process(@),
                   !.cutoffSmoother = ParamSmoother_process(@),
                   !.resoSmoother = ParamSmoother_process(@)]
  ELSE LET half == FilterAdvance(v, n \div 2)
       IN IF half = v /\ n % 2 = 0 THEN v
          ELSE FilterAdvance(half, n - n \div 2)

KawaiiVoice_prepareFilterBlock(v, cutoffHz, res, blockSize) ==
  [v EXCEPT !.filter =
     CytomicSVF_setCoeffForBlock(@, v.filterMode, cutoffHz,
                                 Clamp(res, 0, (98 * One) \div 100),
                                 v.sampleRate, blockSize, One)]

\* [v |-> the voice after the step, out |-> the filtered sample]
KawaiiVoice_filterBlockStep(v, sample) ==
  LET r == CytomicSVF_processBlockStep(v.filter, sample)
  IN [v |-> [v EXCEPT !.filter = r.f], out |-> r.out]

RECURSIVE FilterSteps(_, _, _, _)
\* filterBlockStep over voiceBuf[s] for s = subStart .. subEnd - 1:
\* [v, out], out the filtered samples in order; evaluated by halves
FilterSteps(v, voiceBuf, subStart, subEnd) ==
  IF subStart >= subEnd THEN [v |-> v, out |-> <<>>]
  ELSE IF subEnd - subStart = 1
    THEN LET r == KawaiiVoice_filterBlockStep(v, voiceBuf[subEnd])
         IN [v |-> r.v, out |-> <<r.out>>]
  ELSE LET mid == subStart + (subEnd - subStart) \div 2
           first == FilterSteps(v, voiceBuf, subStart, mid)
           second == FilterSteps(first.v, voiceBuf, mid, subEnd)
       IN [v |-> second.v, out |-> first.out \o second.out]

\* one sub-block of Phase 3, adv the voice after its control-rate advance:
\* effective cutoff, prepareFilterBlock, then the per-sample steps
FilterSubBlock(adv, voiceBuf, subStart, subEnd) ==
  FilterSteps(
    KawaiiVoice_prepareFilterBlock(
      adv,
      computeEffectiveCutoff(adv, adv.cutoffSmoother.current,
                             adv.filterEnvelope.currentValue),
      adv.resoSmoother.current, subEnd - subStart),
    voiceBuf, subStart, subEnd)

\* the output of one more sub-block appended to what the earlier ones gave
FilterNext(done, one) == [v |-> one.v, out |-> done.out \o one.out]

RECURSIVE FilterSubBlocks(_, _, _)
\* Phase 3 for one voice: done = [v, out] is the voice and the filtered
\* samples after the sub-blocks so far, so the loop's subStart is Len(done.out)
FilterSubBlocks(done, voiceBuf, totalSamples) ==
  IF Len(done.out) >= totalSamples THEN done
  ELSE FilterSubBlocks(
         FilterNext(done,
           FilterSubBlock(
             FilterAdvance(done.v,
               Min(Len(done.out) + kSubBlockSize, totalSamples) - Len(done.out)),
             voiceBuf, Len(done.out),
             Min(Len(done.out) + kSubBlockSize, totalSamples))),
         voiceBuf, totalSamples)

RECURSIVE GpuPhase3(_, _, _, _, _, _)
\* Phase 3 for GPU voices i, i + 1, ... of the previous block; acc is
\* [voices, buf] so far
GpuPhase3(acc, i, prev, voiceMap, totalSamples, masterVol) ==
  IF i > prev.prevNumVoices THEN acc
  ELSE GpuPhase3(
         MixVoice(acc, voiceMap[i],
                  FilterSubBlocks([v |-> acc.voices[voiceMap[i]], out |-> <<>>],
                                  prev.prevOutput[i], totalSamples),
                  masterVol),
         i + 1, prev, voiceMap, totalSamples, masterVol)

\* what an array element holds before anything was stored in it: no pool index
Uninitialized == -1

\* mutant: no mapping is recorded, GPU voice i is taken to be pool voice i - 1
SaveVoiceMap_poolOrder(currentVoiceMap) == [i \in 1 .. kMaxVoices |-> i - 1]

\* the save of currentVoiceMap: the slots Phase 1 filled, and nothing
\* stored in the others
SaveVoiceMap(currentVoiceMap) ==
  [i \in 1 .. kMaxVoices |->
     IF i <= Len(currentVoiceMap) THEN currentVoiceMap[i] ELSE Uninitialized]

\* what processBlockGPU leaves: done is Phase 3's [voices, buf]
GpuResult(done, doClamp, totalSamples, p1, p2) ==
  [voices |-> done.voices,
   outputs |-> IF doClamp THEN ClampBuffer(done.buf) ELSE done.buf,
   totalSamples |-> totalSamples,
   bank |-> p2.bank,
   voiceMap |-> SaveVoiceMap(p1.voiceMap),
   numVoices |-> Len(p1.voiceMap)]

\* Phase 3 and the saved voice map: p1 is what Phase 1 left, p2 what
\* processBlock handed back
GpuPhase3AndMap(p1, p2, voiceMap, numSamples, masterVol) ==
  IF p2.prevNumVoices > 0 /\ p2.prevNumSamples > 0
    THEN GpuResult(
           GpuPhase3([voices |-> p1.voices, buf |-> ZeroBuffer(numSamples)], 1,
                     p2, voiceMap, Min(p2.prevNumSamples, numSamples), masterVol),
           TRUE, Min(p2.prevNumSamples, numSamples), p1, p2)
    ELSE GpuResult([voices |-> p1.voices, buf |-> ZeroBuffer(numSamples)],
                   FALSE, 0, p1, p2)

\* Phase 2 onwards
GpuPhase2(p1, bank, voiceMap, numSamples, masterVol) ==
  GpuPhase3AndMap(p1,
                  MetalSineBank_processBlock(bank, p1.oscParams, p1.envValues,
                                             p1.descs, numSamples),
                  voiceMap, numSamples, masterVol)

\* [voices, outputs, totalSamples, bank, voiceMap, numVoices] after
\* processBlockGPU; both channels hold the same samples
processBlockGPU(vs, bank, voiceMap, numSamples, sr, masterVol) ==
  GpuPhase2(GpuPhase1(vs, 0, 0, numSamples, sr), bank, voiceMap, numSamples,
            masterVol)

\* ------------------------------------------------------ persisted state
\* an IBStream* of floats: isNull for a null pointer, data for what it holds
NullStream == [isNull |-> TRUE, data |-> <<>>]

\* mutant: the entries are written as they are, without the cast to float
getState_unrounded(ps, state) ==
  IF state.isNull THEN [result |-> "kResultFalse", state |-> state]
  ELSE [result |-> "kResultOk",
        state |-> [state EXCEPT !.data =
                     @ \o [i \in 1 .. kNumParams |-> ps[i - 1]]]]

\* KawaiiProcessor::getState: [result, state], every write succeeding
getState(ps, state) ==
  IF state.isNull THEN [result |-> "kResultFalse", state |-> state]
  ELSE [result |-> "kResultOk",
        state |-> [state EXCEPT !.data =
                     @ \o [i \in 1 .. kNumParams |-> ToFloat(ps[i - 1])]]]

RECURSIVE setState(_, _, _)
\* KawaiiProcessor::setState from the entry id on: [result, params]; a read
\* past the end of the stream fails
setState(ps, state, id) ==
  IF state.isNull THEN [result |-> "kResultFalse", params |-> ps]
  ELSE IF id >= kNumParams THEN [result |-> "kResultOk", params |-> ps]
  ELSE IF id + 1 > Len(state.data)
    THEN [result |-> "kResultFalse", params |-> ps]
  ELSE setState([ps EXCEPT ![id] = state.data[id + 1]], state, id + 1)

\* ------------------------------------------------------------- state
VARIABLES
  env,           \* one ADSREnvelope driven call by call
  partial,       \* one Partial driven call by call
  rate,          \* the sampleRate argument of the last Partial::process call
  params,        \* KawaiiProcessor::params
  voices,        \* KawaiiProcessor::voices
  useGPU,        \* KawaiiProcessor::useGPU
  metalSineBank, \* KawaiiProcessor::metalSineBank
  prevGpuVoiceMap,   \* KawaiiProcessor::prevGpuVoiceMap, GPU voice 1.. -> pool index
  prevGpuNumVoices,  \* KawaiiProcessor::prevGpuNumVoices
  gpuBufferSizes,    \* the sizes of KawaiiProcessor::gpuOscParams,
                     \* gpuEnvValues, gpuVoiceDescs and gpuPerVoiceOutput
  processSetup,  \* AudioEffect::processSetup
  host,          \* what the host has called: "created", "setup", "active"
  pc,            \* position inside process(): "idle" between calls
  data,          \* the ProcessData of the call in progress
  target,        \* pool index of the voice the last NoteOn was given to
  event,         \* the event processEvent handled last
  stole,         \* whether that event's scan found no free voice
  result,        \* what the last process() or setState() call returned
  outputs,       \* the samples the last process() call left in each output
                 \* channel, <<>> when it wrote none
  phase3Samples, \* processBlockGPU's totalSamples in the last process() call:
                 \* how many samples of each delayed GPU voice it filtered
  budget,        \* calls and inputs the host may still make
  stream         \* the IBStream the host keeps the persisted state in

unitVars == <<env, partial, rate, stream>>
gpuVars == <<metalSineBank, prevGpuVoiceMap, prevGpuNumVoices,
            gpuBufferSizes>>
outVars == <<outputs, phase3Samples>>
procVars == <<params, voices, useGPU, gpuVars, processSetup, host, pc, data,
              target, event, stole, result, outVars, budget>>
vars == <<env, partial, rate, params, voices, useGPU, metalSineBank,
          prevGpuVoiceMap, prevGpuNumVoices, gpuBufferSizes, processSetup,
          host, pc, data, target, event, stole, result, outputs,
          phase3Samples, budget, stream>>

\* ------------------------------------------- one envelope, call by call
SecondsInputs == {0, (5 * One) \div 1000}
ReleaseInputs == SecondsInputs \cup {LongTime}
LevelInputs == {-(One \div 5), One + One \div 2}

InitEnvelope == env = ADSREnvelope_new
\* ------------------------------------------- one partial, call by call
\* phases and frequencies the oscillator is started with, and the sample
\* rates it is processed at: frequencies below, at and above the sample rate
PhaseInputs == {0, One \div 2, One - 1}
FrequencyInputs == {250 * One, 1000 * One, 2500 * One}
RateInputs == {1000, 2000}

InitPartial ==
  /\ partial \in {[Partial_new EXCEPT !.phase = ph, !.frequency = f] :
                    ph \in PhaseInputs, f \in FrequencyInputs}
  /\ rate = 0

\* --------------------------------------------------------- the processor
\* calls and inputs the host makes over one run
MaxBlocks == 3
MaxEvents == 4
MaxParamBlocks == 1
MaxSilentBlocks == 1
MaxActivations == 1

\* ProcessSetup before setupProcessing, and the ones the host hands in
ProcessSetup_new == [sampleRate |-> 44100, maxSamplesPerBlock |-> 1024]
SetupInputs == {[sampleRate |-> 125, maxSamplesPerBlock |-> 16]}

\* two notes whose fundamentals lie below half the sample rate
Pitches == {12, 24}
EventInputs ==
  {NoteOnEvent(12, One), NoteOnEvent(24, One \div 2), NoteOnEvent(12, 0),
   NoteOffEvent(12)}
EventLists ==
  {<<>>} \cup {<<e>> : e \in EventInputs}
         \cup {<<NoteOnEvent(12, One), NoteOnEvent(24, One \div 2)>>}

\* parameter queues: [id, points]; the points are the values in queue order.
\* The values are the host's doubles, stored as they come: one list carries
\* a master volume that is not a number and gives the last partial the
\* shortest release, so that it falls silent before the others. The other
\* closes the filter to 20 Hz and lets a slow filter envelope open it, so
\* that the cutoff moves while a note sounds
ParameterChangeInputs ==
  {<<[id |-> kParamFilterEnvSus, points |-> <<One \div 4, One>>],
     [id |-> kParamFilterCutoff, points |-> <<0>>],
     [id |-> kParamFilterEnvDep, points |-> <<One \div 2 + 1>>],
     [id |-> kParamFilterEnvAtk, points |-> <<One \div 2>>],
     [id |-> kParamFilterReso, points |-> <<>>],
     [id |-> kNumParams, points |-> <<One>>]>>,
   <<[id |-> kParamMasterVolume, points |-> <<NaN>>],
     [id |-> partialParam(kMaxPartials - 1, kPartialOffRelease),
      points |-> <<0>>]>>}

\* what the host asks one process() call to render
RenderInputs ==
  {[numOutputs |-> 1, symbolicSampleSize |-> "kSample32", numSamples |-> 4],
   [numOutputs |-> 1, symbolicSampleSize |-> "kSample32", numSamples |-> 16]}
SilentInputs ==
  {[numOutputs |-> 0, symbolicSampleSize |-> "kSample32", numSamples |-> 4],
   [numOutputs |-> 1, symbolicSampleSize |-> "kSample64", numSamples |-> 4]}

NoData ==
  [inputParameterChanges |-> <<>>, inputEvents |-> <<>>, numOutputs |-> 0,
   symbolicSampleSize |-> "kSample32", numSamples |-> 0]

InitProcessor ==
  /\ params = KawaiiProcessor_params
  /\ voices = [n \in VoiceIds |-> KawaiiVoice_new]
  /\ useGPU = FALSE
  /\ metalSineBank = MetalSineBank_new
  /\ prevGpuVoiceMap = [i \in 1 .. kMaxVoices |-> Uninitialized]
  /\ prevGpuNumVoices = 0
  /\ gpuBufferSizes = [gpuOscParams |-> 0, gpuEnvValues |-> 0,
                       gpuVoiceDescs |-> 0, gpuPerVoiceOutput |-> 0]
  /\ processSetup = ProcessSetup_new
  /\ host = "created"
  /\ pc = "idle"
  /\ data = NoData
  /\ target = -1
  /\ event = NoEvent
  /\ stole = FALSE
  /\ result = "kResultOk"
  /\ outputs = <<>>
  /\ phase3Samples = 0
  /\ budget = [blocks |-> MaxBlocks, events |-> MaxEvents,
               changes |-> MaxParamBlocks, silent |-> MaxSilentBlocks,
               activations |-> MaxActivations]
  /\ stream = NullStream

Init == InitEnvelope /\ partial = Partial_new /\ rate = 0 /\ InitProcessor
InitPartials == InitEnvelope /\ InitPartial /\ InitProcessor

RECURSIVE readParameterChanges_wrapped(_, _)
\* mutant: an id outside the table is wrapped into it
readParameterChanges_wrapped(ps, queues) ==
  IF queues = <<>> THEN ps
  ELSE readParameterChanges_wrapped(
         IF Len(Head(queues).points) >= 1
           THEN [ps EXCEPT ![Head(queues).id % kNumParams] =
                             Head(queues).points[Len(Head(queues).points)]]
           ELSE ps,
         Tail(queues))

RECURSIVE readParameterChanges_firstPoint(_, _)
\* mutant: the first point of each queue is stored
readParameterChanges_firstPoint(ps, queues) ==
  IF queues = <<>> THEN ps
  ELSE readParameterChanges_firstPoint(
         IF Len(Head(queues).points) >= 1 /\ Head(queues).id < kNumParams
           THEN [ps EXCEPT ![Head(queues).id] = Head(queues).points[1]]
           ELSE ps,
         Tail(queues))

\* the parameter array after the queues of one call were read: the last
\* point of each queue, for ids inside the table
RECURSIVE readParameterChanges(_, _)
readParameterChanges(ps, queues) ==
  IF queues = <<>> THEN ps
  ELSE LET q == Head(queues)
           numPoints == Len(q.points)
           next == IF numPoints >= 1 /\ q.id < kNumParams
                     THEN [ps EXCEPT ![q.id] = q.points[numPoints]]
                     ELSE ps
       IN readParameterChanges(next, Tail(queues))

\* mutant: the envelope buffer is sized for one sample per oscillator
GpuBufferSizes_oneSample(maxOsc, maxBlock) ==
  [gpuOscParams |-> maxOsc, gpuEnvValues |-> maxOsc,
   gpuVoiceDescs |-> kMaxVoices, gpuPerVoiceOutput |-> kMaxVoices * maxBlock]

\* the four resize() calls of setActive(true)
GpuBufferSizes(maxOsc, maxBlock) ==
  [gpuOscParams |-> maxOsc, gpuEnvValues |-> maxOsc * maxBlock,
   gpuVoiceDescs |-> kMaxVoices, gpuPerVoiceOutput |-> kMaxVoices * maxBlock]

setupProcessing ==
  /\ host \in {"created", "setup"}
  /\ \E newSetup \in SetupInputs : processSetup' = newSetup
  /\ host' = "setup"
  /\ UNCHANGED <<unitVars, params, voices, useGPU, gpuVars, pc, data, target,
                 event, stole, result, outVars, budget>>

setActive_true ==
  /\ host = "setup"
  /\ budget.activations > 0
  /\ voices' = [n \in VoiceIds |->
                  KawaiiVoice_setSampleRate(voices[n], processSetup.sampleRate)]
  /\ \E gpuOk \in BOOLEAN :
       LET maxBlock == IF processSetup.maxSamplesPerBlock <= 0 THEN 4096
                       ELSE processSetup.maxSamplesPerBlock
           bank == MetalSineBank_init(gpuOk, maxBlock)
       IN /\ metalSineBank' = bank
          /\ gpuBufferSizes' = GpuBufferSizes(kMaxVoices * kMaxPartials, maxBlock)
          /\ useGPU' = (gpuOk /\ MetalSineBank_isAvailable(bank))
  /\ host' = "active"
  /\ budget' = [budget EXCEPT !.activations = @ - 1]
  /\ UNCHANGED <<unitVars, params, prevGpuVoiceMap, prevGpuNumVoices,
                 processSetup, pc, data, target, event, stole, result, outVars>>

\* mutant: deactivation shuts the adapter down and keeps the path flag
setActive_false_keepsPath ==
  /\ host = "active"
  /\ pc = "idle"
  /\ metalSineBank' = MetalSineBank_shutdown(metalSineBank)
  /\ voices' = [n \in VoiceIds |->
                  [voices[n] EXCEPT !.partials =
                     [i \in PartialIds |-> Partial_reset(voices[n].partials[i])]]]
  /\ host' = "setup"
  /\ UNCHANGED <<unitVars, params, useGPU, prevGpuVoiceMap, prevGpuNumVoices,
                 gpuBufferSizes, processSetup, pc, data, target, event, stole,
                 result, outVars, budget>>

setActive_false ==
  /\ host = "active"
  /\ pc = "idle"
  /\ metalSineBank' = MetalSineBank_shutdown(metalSineBank)
  /\ useGPU' = FALSE
  /\ voices' = [n \in VoiceIds |->
                  [voices[n] EXCEPT !.partials =
                     [i \in PartialIds |-> Partial_reset(voices[n].partials[i])]]]
  /\ host' = "setup"
  /\ UNCHANGED <<unitVars, params, prevGpuVoiceMap, prevGpuNumVoices,
                 gpuBufferSizes, processSetup, pc, data, target, event, stole,
                 result, outVars, budget>>

\* process(), entry: the host's ProcessData arrives and the parameter
\* queues are read
process_parameters ==
  /\ host = "active"
  /\ pc = "idle"
  /\ budget.blocks > 0
  /\ \E changes \in {<<>>} \cup {c \in ParameterChangeInputs : budget.changes > 0},
        evs \in {l \in EventLists : Len(l) <= budget.events},
        r \in RenderInputs \cup {r \in SilentInputs : budget.silent > 0} :
        /\ data' = [inputParameterChanges |-> changes, inputEvents |-> evs,
                    numOutputs |-> r.numOutputs,
                    symbolicSampleSize |-> r.symbolicSampleSize,
                    numSamples |-> r.numSamples]
        /\ params' = readParameterChanges(params, changes)
        /\ budget' = [budget EXCEPT
                        !.blocks = @ - 1,
                        !.events = @ - Len(evs),
                        !.changes = IF changes = <<>> THEN @ ELSE @ - 1,
                        !.silent = IF r \in SilentInputs THEN @ - 1 ELSE @]
  /\ pc' = "events"
  /\ UNCHANGED <<unitVars, voices, useGPU, gpuVars, processSetup, host,
                 target, event, stole, result, outVars>>

\* process(), the event loop: one event per step, in list order
process_event ==
  /\ pc = "events"
  /\ data.inputEvents # <<>>
  /\ LET r == processEvent(voices, target, Head(data.inputEvents))
     IN /\ voices' = r.voices
        /\ target' = r.target
        /\ stole' = r.stole
  /\ event' = Head(data.inputEvents)
  /\ data' = [data EXCEPT !.inputEvents = Tail(@)]
  /\ UNCHANGED <<unitVars, params, useGPU, gpuVars, processSetup, host, pc,
                 result, outVars, budget>>

\* the latency the host is told
getLatencySamples(gpu, bank) ==
  IF gpu THEN MetalSineBank_getLatencySamples(bank) ELSE 0

\* what the host is told when it asks for a sample format
canProcessSampleSize(symbolicSampleSize) ==
  IF symbolicSampleSize = "kSample32" \/ symbolicSampleSize = "kSample64"
    THEN "kResultTrue" ELSE "kResultFalse"

\* mutant: a block without an output buffer is rendered like any other
NoOutputs_never(d) == FALSE

\* if (data.numOutputs == 0)
NoOutputs(d) == d.numOutputs = 0

\* process(), after the events: updateParameters and the render; the call
\* returns and its locals are gone
process_render ==
  /\ pc = "events"
  /\ data.inputEvents = <<>>
  /\ LET updated == updateParameters(params, voices)
     IN IF NoOutputs(data)
          THEN /\ voices' = updated
               /\ result' = "kResultOk"
               /\ outputs' = <<>>
               /\ phase3Samples' = 0
               /\ UNCHANGED gpuVars
        ELSE IF data.symbolicSampleSize = "kSample64"
          THEN /\ voices' = updated
               /\ result' = "kResultFalse"
               /\ outputs' = <<>>
               /\ phase3Samples' = 0
               /\ UNCHANGED gpuVars
        ELSE IF useGPU
          THEN \E r \in {processBlockGPU(updated, metalSineBank, prevGpuVoiceMap,
                                         data.numSamples, processSetup.sampleRate,
                                         params[kParamMasterVolume])} :
                  /\ voices' = r.voices
                  /\ outputs' = r.outputs
                  /\ phase3Samples' = r.totalSamples
                  /\ metalSineBank' = r.bank
                  /\ prevGpuVoiceMap' = r.voiceMap
                  /\ prevGpuNumVoices' = r.numVoices
                  /\ result' = "kResultOk"
                  /\ UNCHANGED gpuBufferSizes
        ELSE \E r \in {processBlockCPU(updated, data.numSamples,
                                       params[kParamMasterVolume])} :
                  /\ voices' = r.voices
                  /\ outputs' = r.outputs
                  /\ phase3Samples' = 0
                  /\ result' = "kResultOk"
                  /\ UNCHANGED gpuVars
  /\ pc' = "idle"
  /\ data' = NoData
  /\ target' = -1
  /\ event' = NoEvent
  /\ stole' = FALSE
  /\ UNCHANGED <<unitVars, params, useGPU, processSetup, host, budget>>

Next ==
  \/ setupProcessing
  \/ setActive_true
  \/ setActive_false
  \/ process_parameters
  \/ process_event
  \/ process_render

Spec == Init /\ [][Next]_vars

Env_setAttack ==
  /\ \E sec \in SecondsInputs : env' = ADSREnvelope_setAttack(env, sec)
  /\ UNCHANGED <<partial, rate, stream, procVars>>
Env_setDecay ==
  /\ \E sec \in SecondsInputs : env' = ADSREnvelope_setDecay(env, sec)
  /\ UNCHANGED <<partial, rate, stream, procVars>>
Env_setSustain ==
  /\ \E lvl \in LevelInputs : env' = ADSREnvelope_setSustain(env, lvl)
  /\ UNCHANGED <<partial, rate, stream, procVars>>
Env_setRelease ==
  /\ \E sec \in ReleaseInputs : env' = ADSREnvelope_setRelease(env, sec)
  /\ UNCHANGED <<partial, rate, stream, procVars>>
Env_noteOn ==
  /\ env' = ADSREnvelope_noteOn(env)
  /\ UNCHANGED <<partial, rate, stream, procVars>>
Env_noteOff ==
  /\ env' = ADSREnvelope_noteOff(env)
  /\ UNCHANGED <<partial, rate, stream, procVars>>
Env_process ==
  /\ env' = ADSREnvelope_process(env)
  /\ UNCHANGED <<partial, rate, stream, procVars>>
Env_reset ==
  /\ env' = ADSREnvelope_reset(env)
  /\ UNCHANGED <<partial, rate, stream, procVars>>

NextEnvelope ==
  \/ Env_setAttack \/ Env_setDecay \/ Env_setSustain \/ Env_setRelease
  \/ Env_noteOn \/ Env_noteOff \/ Env_process \/ Env_reset

SpecEnvelope == Init /\ [][NextEnvelope]_vars

Part_noteOn ==
  /\ partial' = [partial EXCEPT !.envelope = ADSREnvelope_noteOn(@)]
  /\ UNCHANGED <<env, rate, stream, procVars>>
Part_noteOff ==
  /\ partial' = [partial EXCEPT !.envelope = ADSREnvelope_noteOff(@)]
  /\ UNCHANGED <<env, rate, stream, procVars>>
\* the oscillator is driven from phases in [0,1) only
Part_process ==
  /\ 0 <= partial.phase /\ partial.phase < One
  /\ \E sr \in RateInputs :
       /\ partial' = Partial_process(partial, sr)
       /\ rate' = sr
  /\ UNCHANGED <<env, stream, procVars>>
Part_reset ==
  /\ partial' = Partial_reset(partial)
  /\ UNCHANGED <<env, rate, stream, procVars>>

NextPartial == Part_noteOn \/ Part_noteOff \/ Part_process \/ Part_reset

SpecPartial == InitPartials /\ [][NextPartial]_vars

\* ------------------------------- the persisted state, call by call
\* process() with one parameter queue of one point: doubles that are no
\* floats, and one that is
State_parameterChange ==
  /\ \E id \in {kParamMasterVolume, kParamMasterTune, kNumParams - 1},
        value \in {16777217, 16777219, 33554435, One \div 2} :
       params' = readParameterChanges(params,
                   <<[id |-> id, points |-> <<value>>]>>)
  /\ UNCHANGED <<env, partial, rate, stream, voices, useGPU, gpuVars,
                 processSetup, host, pc, data, target, event, stole, result,
                 outVars, budget>>
\* the host passes no stream or an empty one
State_getState ==
  /\ \E state \in {NullStream, [NullStream EXCEPT !.isNull = FALSE]} :
       LET r == getState(params, state)
       IN stream' = r.state /\ result' = r.result
  /\ UNCHANGED <<env, partial, rate, params, voices, useGPU, gpuVars,
                 processSetup, host, pc, data, target, event, stole, outVars,
                 budget>>
\* the host passes no stream, the stream it keeps, or a leading part of it
State_setState ==
  /\ \E state \in {NullStream} \cup
                   {[stream EXCEPT !.data = SubSeq(@, 1, Min(k, Len(@)))] :
                      k \in {0, 1, kNumParams - 1, kNumParams}} :
       LET r == setState(params, state, 0)
       IN params' = r.params /\ result' = r.result
  /\ UNCHANGED <<env, partial, rate, stream, voices, useGPU, gpuVars,
                 processSetup, host, pc, data, target, event, stole, outVars,
                 budget>>

NextState == State_parameterChange \/ State_getState \/ State_setState

SpecState == Init /\ [][NextState]_vars

\* C6: a process() call in Attack never lowers the value; the call at which
\* the value reaches 1.0 leaves it at exactly 1.0 with the stage Decay, and
\* until then the stage stays Attack.
C6_AttackMonotone ==
  [][(Env_process /\ env.stage = "Attack") =>
       /\ env'.currentValue >= env.currentValue
       /\ env'.currentValue <= One
       /\ (env'.currentValue = One <=> env'.stage = "Decay")
       /\ (env'.currentValue < One => env'.stage = "Attack")]_vars
C6_Witness ==
  env.stage = "Decay" /\ env.currentValue = One

\* C7: an envelope in Release, processed repeatedly, reaches Idle with value
\* exactly 0 after finitely many calls: every process() call in Release
\* either ends in Idle with value 0 or leaves a strictly smaller value, so no
\* Release state is left unchanged by the call.
C7_ReleaseTerminates ==
  env.stage = "Release" =>
    LET after == ADSREnvelope_process(env)
    IN \/ after.stage = "Idle" /\ after.currentValue = 0
       \/ after.stage = "Release" /\ after.currentValue < env.currentValue

C9_PhaseInUnitInterval ==
  0 <= partial.phase /\ partial.phase < One

\* the event the event loop handles next, and whether it starts a note
NextEvent == Head(data.inputEvents)
StartsNote ==
  /\ process_event
  /\ NextEvent.type = "kNoteOnEvent"
  /\ NextEvent.velocity # 0

\* C1: a NoteOn with velocity > 0 is given to the lowest-index voice that is
\* inactive when the event arrives, or to voice 0 when none is; that voice
\* and no other receives noteOn, and the event is always taken.
C1_FirstInactiveElseVoiceZero ==
  [][StartsNote =>
       LET inactive == {n \in VoiceIds : ~KawaiiVoice_isActive(voices[n])}
           expected == IF inactive = {} THEN 0
                       ELSE CHOOSE n \in inactive : \A m \in inactive : n <= m
       IN /\ target' = expected
          /\ voices'[expected] =
               KawaiiVoice_noteOn(voices[expected], NextEvent.pitch,
                                  NextEvent.velocity)
          /\ KawaiiVoice_isActive(voices'[expected])
          /\ \A n \in VoiceIds \ {expected} : voices'[n] = voices[n]]_vars
\* voice 0 had become free again while voice 1 was still sounding, and the
\* note went to voice 0
C1_Witness ==
  /\ event.type = "kNoteOnEvent" /\ event.velocity # 0
  /\ target = 0 /\ ~stole
  /\ voices[0].noteNumber = event.pitch
  /\ KawaiiVoice_isActive(voices[1])
  /\ budget.events = MaxEvents - 4

\* C2: from every pool state a NoteOn with velocity 0 and a NoteOff of the
\* same pitch give the same successor: noteOff() for each active voice
\* holding that note, every other voice unchanged, no voice allocated.
C2_VelocityZeroIsNoteOff ==
  \A p \in Pitches :
    LET viaNoteOn == processEvent(voices, target, NoteOnEvent(p, 0))
        viaNoteOff == processEvent(voices, target, NoteOffEvent(p))
    IN /\ viaNoteOn = viaNoteOff
       /\ viaNoteOn.target = target /\ ~viaNoteOn.stole
       /\ \A n \in VoiceIds :
            viaNoteOn.voices[n] =
              IF voices[n].noteNumber = p
                 /\ \E i \in PartialIds : voices[n].partials[i].envelope.stage # "Idle"
                THEN [voices[n] EXCEPT
                        !.partials = [i \in PartialIds |->
                           [voices[n].partials[i] EXCEPT
                              !.envelope = ADSREnvelope_noteOff(@)]],
                        !.filterEnvelope = ADSREnvelope_noteOff(@)]
                ELSE voices[n]
\* the second event of the run was a NoteOn with velocity 0 and it released
\* the voice the first event had started, while another note would not have
\* been touched
C2_Witness ==
  /\ event.type = "kNoteOnEvent" /\ event.velocity = 0
  /\ budget.events = MaxEvents - 2
  /\ data.inputEvents = <<>>
  /\ \E n \in VoiceIds :
       /\ voices[n].noteNumber = event.pitch
       /\ \A i \in PartialIds : voices[n].partials[i].envelope.stage = "Release"

\* C3: a NoteOn that finds every voice active is given to voice 0, which
\* then holds the new pitch and velocity with every oscillator phase at 0.
C3_StealResetsVoiceZero ==
  [][(StartsNote /\ \A n \in VoiceIds : KawaiiVoice_isActive(voices[n])) =>
       /\ target' = 0
       /\ voices'[0].noteNumber = NextEvent.pitch
       /\ voices'[0].velocity = NextEvent.velocity
       /\ \A i \in PartialIds : voices'[0].partials[i].phase = 0]_vars
\* a steal has just happened and gave voice 0 a note unlike the one voice 1
\* still holds
C3_Witness ==
  /\ stole /\ target = 0
  /\ voices[0].noteNumber = event.pitch
  /\ voices[0].velocity = event.velocity
  /\ voices[1].noteNumber # event.pitch
  /\ KawaiiVoice_isActive(voices[1])

\* C4: after noteOn on a voice that played before, every oscillator of the
\* voice has phase 0 and an envelope starting its Attack from value 0.
C4_NoteOnResetsOscillators ==
  [][(StartsNote /\ voices[target'].noteNumber # -1) =>
       \A i \in PartialIds :
         /\ voices'[target'].partials[i].phase = 0
         /\ voices'[target'].partials[i].envelope.stage = "Attack"
         /\ voices'[target'].partials[i].envelope.currentValue = 0]_vars

\* C5: noteOff() on a voice that is not active changes nothing of the voice.
C5_NoteOffOnIdleVoiceIsNoOp ==
  \A n \in VoiceIds :
    ~KawaiiVoice_isActive(voices[n]) => KawaiiVoice_noteOff(voices[n]) = voices[n]

\* C10: a voice that reports inactive has every oscillator envelope and its
\* filter envelope Idle.
C10_InactiveMeansAllIdle ==
  \A n \in VoiceIds :
    ~KawaiiVoice_isActive(voices[n]) =>
      /\ \A i \in PartialIds : voices[n].partials[i].envelope.stage = "Idle"
      /\ voices[n].filterEnvelope.stage = "Idle"

\* C11: on the CPU path, a sounding voice that the last event of a block
\* released is inactive after release_time * sampleRate rendered samples
\* (rounded up, and one sample more for the silence test), release_time the
\* longest release time the parameters give its oscillators.
C11_InactiveWithinReleaseTime ==
  (pc = "events" /\ data.inputEvents = <<>> /\ ~useGPU
     /\ event.type = "kNoteOffEvent") =>
    \A n \in VoiceIds :
      (voices[n].noteNumber = event.pitch /\ KawaiiVoice_isActive(voices[n])) =>
        LET releaseTime(i) ==
              ParamSeconds(params[partialParam(i, kPartialOffRelease)],
                           kEnvReleaseMin, kEnvReleaseMax)
            longest == CHOOSE t \in {releaseTime(i) : i \in PartialIds} :
                         \A i \in PartialIds : releaseTime(i) <= t
            samples == (longest * processSetup.sampleRate + One - 1) \div One
        IN ~KawaiiVoice_isActive(
              VoiceRun(updateParameters(params, voices)[n], samples + 1))

\* C12: a process() call reads the parameter queues first, with no voice
\* touched and no event applied; then applies the events one by one in list
\* order, with the parameter array fixed and nothing pushed into a voice;
\* then, when no event is left, pushes the parameter array into every
\* voice, active or not, and renders.
C12_ParametersEventsSnapshotRender ==
  [][LET snapshot(v) ==
           <<[i \in PartialIds |-> v.partials[i].level],
             [i \in PartialIds |-> v.partials[i].envelope.sustainLevel],
             v.filterEnvelope.sustainLevel, v.cutoffSmoother.target,
             v.resoSmoother.target, v.filterKeytrack>>
         pushed(ps) ==
           <<[i \in PartialIds |-> ps[partialParam(i, kPartialOffLevel)]],
             [i \in PartialIds |->
                Clamp(ps[partialParam(i, kPartialOffSustain)], 0, One)],
             Clamp(ps[kParamFilterEnvSus], 0, One), ps[kParamFilterCutoff],
             ps[kParamFilterReso], ps[kParamFilterKeytrk]>>
     IN /\ (pc = "idle" /\ pc' = "events") =>
             /\ params' = readParameterChanges(params, data'.inputParameterChanges)
             /\ voices' = voices
             /\ event' = event
             /\ outputs' = outputs
        /\ (pc = "events" /\ pc' = "events") =>
             /\ params' = params
             /\ data.inputEvents # <<>>
             /\ event' = Head(data.inputEvents)
             /\ data'.inputEvents = Tail(data.inputEvents)
             /\ \A n \in VoiceIds : snapshot(voices'[n]) = snapshot(voices[n])
             /\ outputs' = outputs
        /\ (pc = "events" /\ pc' = "idle") =>
             /\ params' = params
             /\ data.inputEvents = <<>>
             /\ \A n \in VoiceIds : snapshot(voices'[n]) = pushed(params)]_vars

\* a rendered block after a parameter change and a note: a sounding voice
\* and a free one both hold the changed value
C12_Witness ==
  /\ pc = "idle"
  /\ outputs # <<>>
  /\ \E s \in 1 .. Len(outputs) : outputs[s] # 0
  /\ params[kParamFilterEnvSus] = One
  /\ \E n \in VoiceIds :
       KawaiiVoice_isActive(voices[n]) /\ voices[n].filterEnvelope.sustainLevel = One
  /\ \E n \in VoiceIds :
       ~KawaiiVoice_isActive(voices[n]) /\ voices[n].filterEnvelope.sustainLevel = One

\* C13: after a process() call that rendered, every sample it left in the
\* output channels is in [-1, 1].
C13_OutputInUnitRange ==
  \A s \in 1 .. Len(outputs) :
    outputs[s] # NaN /\ -One <= outputs[s] /\ outputs[s] <= One

\* C14: when process() has read the parameter queues, the parameter array
\* holds the final point of every queue that has a point and an id inside
\* the table, and its previous value everywhere else; nothing but the
\* parameter array took a value from the queues.
C14_LastValueWins ==
  [][(pc = "idle" /\ pc' = "events") =>
       LET queues == data'.inputParameterChanges
           valid(q) == Len(q.points) >= 1 /\ q.id < kNumParams
       IN /\ \A k \in 1 .. Len(queues) :
               valid(queues[k]) =>
                 params'[queues[k].id] = queues[k].points[Len(queues[k].points)]
          /\ \A id \in ParamIds :
               (\A k \in 1 .. Len(queues) : ~valid(queues[k]) \/ queues[k].id # id)
                 => params'[id] = params[id]
          /\ voices' = voices
          /\ UNCHANGED <<gpuVars, outVars>>]_vars

\* a call whose queue of two different points has been read
C14_Witness ==
  /\ pc = "events"
  /\ \E k \in 1 .. Len(data.inputParameterChanges) :
       LET q == data.inputParameterChanges[k]
       IN /\ Len(q.points) >= 2
          /\ q.id < kNumParams
          /\ q.points[1] # q.points[Len(q.points)]
          /\ params[q.id] = q.points[Len(q.points)]
          /\ KawaiiProcessor_params[q.id] # q.points[Len(q.points)]

\* C15: a queue whose id is not below kNumParams changes no entry of the
\* parameter array, which keeps its index set and holds what the other
\* queues of the call give; the call goes on through all its events and the
\* id is no reason for it to return a failure.
C15_OutOfTableIdIgnored ==
  [][LET outOfTable(queues) ==
           \E k \in 1 .. Len(queues) : queues[k].id >= kNumParams
         last(q) == q.points[Len(q.points)]
     IN /\ (pc = "idle" /\ pc' = "events"
              /\ outOfTable(data'.inputParameterChanges)) =>
             /\ DOMAIN params' = ParamIds
             /\ \A id \in ParamIds :
                  \/ params'[id] = params[id]
                  \/ \E k \in 1 .. Len(data'.inputParameterChanges) :
                       /\ data'.inputParameterChanges[k].id = id
                       /\ Len(data'.inputParameterChanges[k].points) >= 1
                       /\ params'[id] = last(data'.inputParameterChanges[k])
             /\ \A k \in 1 .. Len(data'.inputParameterChanges) :
                  LET q == data'.inputParameterChanges[k]
                  IN (q.id < kNumParams /\ Len(q.points) >= 1) =>
                       params'[q.id] = last(q)
        /\ (pc = "events" /\ outOfTable(data.inputParameterChanges)) =>
             /\ data.inputEvents # <<>> =>
                  (pc' = "events" /\ event' = Head(data.inputEvents))
             /\ pc' = "idle" =>
                  /\ data.inputEvents = <<>>
                  /\ result' = "kResultFalse" =>
                       data.symbolicSampleSize = "kSample64"]_vars

\* a call with an out-of-table id, after its other queue was stored and one
\* of its notes started
C15_Witness ==
  /\ pc = "events"
  /\ \E k \in 1 .. Len(data.inputParameterChanges) :
       data.inputParameterChanges[k].id >= kNumParams
  /\ params[kParamFilterEnvSus] = One
  /\ params[kParamMasterVolume] = KawaiiProcessor_params[kParamMasterVolume]
  /\ event.type = "kNoteOnEvent"
  /\ \E n \in VoiceIds :
       voices[n].noteNumber = event.pitch /\ KawaiiVoice_isActive(voices[n])

\* C16: a process() call whose block has no output buffer returns
\* kResultOk with no sample written; every voice keeps its phases, envelope
\* stages and values, smoother values and filter state, the GPU pipeline is
\* not touched, and the call's events were applied and its parameters
\* pushed before it returned.
C16_NoOutputSkipsRender ==
  [][(pc = "events" /\ pc' = "idle" /\ data.numOutputs = 0) =>
       /\ result' = "kResultOk"
       /\ outputs' = <<>>
       /\ data.inputEvents = <<>>
       /\ UNCHANGED <<params, gpuVars>>
       /\ \A n \in VoiceIds :
            /\ \A i \in PartialIds :
                 /\ voices'[n].partials[i].phase = voices[n].partials[i].phase
                 /\ voices'[n].partials[i].envelope.stage
                      = voices[n].partials[i].envelope.stage
                 /\ voices'[n].partials[i].envelope.currentValue
                      = voices[n].partials[i].envelope.currentValue
            /\ voices'[n].filterEnvelope.stage = voices[n].filterEnvelope.stage
            /\ voices'[n].filterEnvelope.currentValue
                 = voices[n].filterEnvelope.currentValue
            /\ voices'[n].cutoffSmoother.current = voices[n].cutoffSmoother.current
            /\ voices'[n].resoSmoother.current = voices[n].resoSmoother.current
            /\ voices'[n].filter = voices[n].filter
            /\ voices'[n].filterEnvelope.sustainLevel
                 = Clamp(params[kParamFilterEnvSus], 0, One)]_vars

\* the first call of a run had no output buffer, a parameter change and a
\* NoteOn: it returned kResultOk, the voice is started but not advanced
C16_Witness ==
  /\ pc = "idle"
  /\ host = "active"
  /\ budget.blocks = MaxBlocks - 1
  /\ result = "kResultOk"
  /\ outputs = <<>>
  /\ params[kParamFilterEnvSus] = One
  /\ \E n \in VoiceIds :
       /\ KawaiiVoice_isActive(voices[n])
       /\ voices[n].filterEnvelope.sustainLevel = One
       /\ \A i \in PartialIds :
            /\ voices[n].partials[i].phase = 0
            /\ voices[n].partials[i].envelope.currentValue = 0

\* C17: a process() call with an output buffer and a sample format that
\* canProcessSampleSize accepts renders the block, numSamples samples, and
\* returns kResultOk.
C17_AcceptedFormatIsRendered ==
  [][(pc = "events" /\ pc' = "idle" /\ data.numOutputs > 0
        /\ canProcessSampleSize(data.symbolicSampleSize) = "kResultTrue") =>
       /\ result' = "kResultOk"
       /\ Len(outputs') = data.numSamples]_vars

\* C18: a GPU-path process() call that renders submits its own block and
\* emits the block the call before submitted: when that block held voices,
\* all of its samples are filtered and mixed, however long the two blocks
\* are, and when nothing was submitted before, the output is silence.
C18_OneBlockPipeline ==
  [][(pc = "events" /\ pc' = "idle" /\ useGPU /\ data.numOutputs > 0
        /\ data.symbolicSampleSize = "kSample32") =>
       /\ metalSineBank'.prevNumSamples = data.numSamples
       /\ (metalSineBank.prevNumVoices > 0 /\ metalSineBank.prevNumSamples > 0)
            => phase3Samples' = metalSineBank.prevNumSamples
       /\ metalSineBank.prevNumVoices = 0
            => \A s \in 1 .. Len(outputs') : outputs'[s] = 0]_vars

\* C19: in a GPU-path process() call that renders, the map entries Phase 3
\* reads, one per voice of the previous results, are pool indices the call
\* before stored; the results in GPU slot i pass through the filter of the
\* voice stored for slot i, whether or not that voice still sounds, and no
\* other voice's filter moves; and the map the call stores lists the voices
\* that sounded when it submitted its block, in pool order.
C19_RoutedBySavedMap ==
  [][(pc = "events" /\ pc' = "idle" /\ useGPU /\ data.numOutputs > 0
        /\ data.symbolicSampleSize = "kSample32") =>
       LET prevNumVoices == metalSineBank.prevNumVoices
           totalSamples == Min(metalSineBank.prevNumSamples, data.numSamples)
           slots(n) == {i \in 1 .. prevNumVoices : prevGpuVoiceMap[i] = n}
           sounding == {n \in VoiceIds : KawaiiVoice_isActive(voices[n])}
       IN /\ prevNumVoices > 0 =>
               /\ prevNumVoices = prevGpuNumVoices
               /\ \A i \in 1 .. prevNumVoices : prevGpuVoiceMap[i] \in VoiceIds
          /\ \A n \in VoiceIds :
               IF slots(n) = {} \/ totalSamples = 0
                 THEN /\ voices'[n].filter = voices[n].filter
                      /\ voices'[n].filterEnvelope.currentValue
                           = voices[n].filterEnvelope.currentValue
                      /\ voices'[n].cutoffSmoother.current
                           = voices[n].cutoffSmoother.current
                 ELSE \A i \in slots(n) :
                        voices'[n].filter =
                          FilterSubBlocks(
                            [v |-> updateParameters(params, voices)[n], out |-> <<>>],
                            metalSineBank.prevOutput[i], totalSamples).v.filter
          /\ prevGpuNumVoices' = Cardinality(sounding)
          /\ \A i \in 1 .. prevGpuNumVoices' :
               /\ prevGpuVoiceMap'[i] \in sounding
               /\ i > 1 => prevGpuVoiceMap'[i - 1] < prevGpuVoiceMap'[i]]_vars

\* voice 0 fell silent during the call before: this call filtered that
\* call's results, and the map it stored starts with voice 1
C19_Witness ==
  /\ pc = "idle"
  /\ useGPU
  /\ phase3Samples > 0
  /\ voices[0].noteNumber # -1
  /\ ~KawaiiVoice_isActive(voices[0])
  /\ prevGpuNumVoices = 1
  /\ prevGpuVoiceMap[1] = 1
  /\ metalSineBank.prevNumVoices = 1

\* C20: the latency reported to the host is 0 while the GPU path is off
\* and, while it is on and a block is in flight, the number of samples of
\* that block: the samples by which its audio is late.
C20_LatencyIsOneBlock ==
  /\ ~useGPU => getLatencySamples(useGPU, metalSineBank) = 0
  /\ (useGPU /\ metalSineBank.prevNumSamples > 0) =>
       getLatencySamples(useGPU, metalSineBank) = metalSineBank.prevNumSamples

\* C21: when the first rendered block after activation starts one note, the
\* GPU path's output for the block after it (same length, same parameters,
\* no event) is the CPU path's output for the block itself, sample by
\* sample within 0.01, and the note's voice ends with the same filter
\* envelope and smoothers on both paths.
C21_GpuEqualsCpuOneBlockLater ==
  (pc = "events" /\ data.inputEvents = <<>> /\ useGPU
     /\ metalSineBank.prevNumSamples = 0 /\ data.numOutputs > 0
     /\ data.symbolicSampleSize = "kSample32"
     /\ params[kParamMasterVolume] # NaN
     /\ event.type = "kNoteOnEvent" /\ event.velocity > 0
     /\ Cardinality({n \in VoiceIds : KawaiiVoice_isActive(voices[n])}) = 1) =>
    LET masterVol == params[kParamMasterVolume]
        blockN == updateParameters(params, voices)
        cpu == processBlockCPU(blockN, data.numSamples, masterVol)
        gpuN == processBlockGPU(blockN, metalSineBank, prevGpuVoiceMap,
                                data.numSamples, processSetup.sampleRate, masterVol)
        gpuN1 == processBlockGPU(updateParameters(params, gpuN.voices), gpuN.bank,
                                 gpuN.voiceMap, data.numSamples,
                                 processSetup.sampleRate, masterVol)
    IN /\ \A s \in 1 .. data.numSamples :
            Abs(gpuN1.outputs[s] - cpu.outputs[s]) <= One \div 100
       /\ \A n \in VoiceIds :
            /\ gpuN1.voices[n].filterEnvelope = cpu.voices[n].filterEnvelope
            /\ gpuN1.voices[n].cutoffSmoother = cpu.voices[n].cutoffSmoother
            /\ gpuN1.voices[n].resoSmoother = cpu.voices[n].resoSmoother

\* C22: a stream getState has just written, restored by setState into a
\* fresh engine, gives an array whose every entry is the float value of the
\* original entry at the same index, and getState of that array writes the
\* same stream again.
C22_StateRoundTrip ==
  [][(stream' # stream /\ ~stream'.isNull) =>
       LET r == setState(KawaiiProcessor_params, stream', 0)
       IN /\ r.result = "kResultOk"
          /\ \A id \in ParamIds : r.params[id] = ToFloat(params[id])
          /\ getState(r.params, [NullStream EXCEPT !.isNull = FALSE]).state
               = stream']_vars
C22_Witness ==
  /\ ~stream.isNull
  /\ stream = getState(params, [NullStream EXCEPT !.isNull = FALSE]).state
  /\ \E id \in ParamIds : ToFloat(params[id]) # params[id]
  /\ setState(KawaiiProcessor_params, stream, 0).params # params

\* C29: a setState call that returns failure leaves every entry of the
\* parameter array at the value it had before the call.
C29_FailedSetStateChangesNothing ==
  \A k \in 0 .. kNumParams :
    LET r == setState(params,
               [stream EXCEPT !.data = SubSeq(@, 1, Min(k, Len(@)))], 0)
    IN r.result = "kResultFalse" => r.params = params

\* C23: the path flag changes only in a setActive call, it is the same
\* before and after every step taken while the processor stays active, and
\* whenever it selects the GPU path the processor is active and the adapter
\* has been initialised successfully and not shut down since.
C23_PathChosenAtActivation ==
  [][/\ (useGPU' # useGPU =>
           \/ (host = "setup" /\ host' = "active")
           \/ (host = "active" /\ host' = "setup"))
     /\ (host = "active" /\ host' = "active" => useGPU' = useGPU)
     /\ (useGPU' => host' = "active" /\ MetalSineBank_isAvailable(metalSineBank'))
     /\ (pc = "events" /\ pc' = "idle" /\ useGPU /\ outputs' # <<>> =>
           /\ MetalSineBank_isAvailable(metalSineBank)
           /\ metalSineBank'.prevNumSamples = data.numSamples)]_vars
C23_Witness ==
  /\ useGPU /\ pc = "idle" /\ host = "active"
  /\ budget.blocks <= MaxBlocks - 2
  /\ metalSineBank.prevNumSamples > 0
  /\ outputs # <<>>

\* C24: between two process() calls on the GPU path, for every voice, cutoff and sub-block
\* length n: after prepareFilterBlock the j-th filterBlockStep (j = 0..n)
\* finds each of a1, a2, a3, m0, m1, m2 at previous + j * delta, delta being
\* the increment setCoeffForBlock computed, which is within half a unit of
\* (target - previous) / n; previous is the coefficient the filter held at
\* the call, or the target in the first block after init(), where nothing
\* moves.
C24_LinearRamp ==
  (pc = "idle" /\ useGPU) =>
    \A n \in VoiceIds, blockSize \in {3, kSubBlockSize},
       cutoffHz \in {5 * One, 60 * One} :
      LET v == voices[n]
          Coeffs(f) == <<f.a1, f.a2, f.a3, f.m0, f.m1, f.m2>>
          Deltas(f) == <<f.da1, f.da2, f.da3, f.dm0, f.dm1, f.dm2>>
          t == Coeffs(CytomicSVF_setCoeff(v.filter, v.filterMode, cutoffHz,
                        Clamp(v.resoSmoother.current, 0, (98 * One) \div 100),
                        v.sampleRate, One))
          previous == IF v.filter.firstBlock THEN t ELSE Coeffs(v.filter)
          b == KawaiiVoice_prepareFilterBlock(v, cutoffHz,
                 v.resoSmoother.current, blockSize)
          voiceBuf == [s \in 1 .. blockSize |-> One \div 2]
      IN \A j \in 0 .. blockSize :
           LET after == Coeffs(FilterSteps(b, voiceBuf, 0, j).v.filter)
           IN \A c \in 1 .. 6 :
                /\ after[c] = previous[c] + j * Deltas(b.filter)[c]
                /\ 2 * Abs(blockSize * Deltas(b.filter)[c]
                             - (t[c] - previous[c])) <= blockSize
                /\ v.filter.firstBlock => after[c] = t[c]
C24_Witness ==
  /\ pc = "idle" /\ useGPU
  /\ \E n \in VoiceIds :
       /\ ~voices[n].filter.firstBlock
       /\ voices[n].filter.da2 # 0
       /\ CytomicSVF_setCoeff(voices[n].filter, voices[n].filterMode, 60 * One,
            Clamp(voices[n].resoSmoother.current, 0, (98 * One) \div 100),
            voices[n].sampleRate, One).a2 # voices[n].filter.a2

\* C24 as stated: the j-th step finds each coefficient at exactly
\* previous + j * (target - previous) / n, and at the target after n steps.
C24_ExactRamp ==
  (pc = "idle" /\ useGPU) =>
    \A n \in VoiceIds, blockSize \in {3, kSubBlockSize},
       cutoffHz \in {5 * One, 60 * One} :
      LET v == voices[n]
          Coeffs(f) == <<f.a1, f.a2, f.a3, f.m0, f.m1, f.m2>>
          t == Coeffs(CytomicSVF_setCoeff(v.filter, v.filterMode, cutoffHz,
                        Clamp(v.resoSmoother.current, 0, (98 * One) \div 100),
                        v.sampleRate, One))
          previous == IF v.filter.firstBlock THEN t ELSE Coeffs(v.filter)
          b == KawaiiVoice_prepareFilterBlock(v, cutoffHz,
                 v.resoSmoother.current, blockSize)
          voiceBuf == [s \in 1 .. blockSize |-> One \div 2]
      IN \A j \in 0 .. blockSize :
           LET after == Coeffs(FilterSteps(b, voiceBuf, 0, j).v.filter)
           IN \A c \in 1 .. 6 :
                blockSize * (after[c] - previous[c]) = j * (t[c] - previous[c])

\* C25: from every stage noteOn() leads to Attack, noteOff() to Release
\* unless the stage is Idle, which it keeps, and reset() to Idle; process()
\* changes the stage only from Attack to Decay, from Decay to Sustain and
\* from Release to Idle; the setters keep the stage; process() in Sustain
\* stays in Sustain with the value at the sustain level, and process() in
\* Idle stays in Idle.
C25_StageTransitions ==
  LET p == ADSREnvelope_process(env)
  IN /\ ADSREnvelope_noteOn(env).stage = "Attack"
     /\ ADSREnvelope_noteOff(env).stage =
          (IF env.stage = "Idle" THEN "Idle" ELSE "Release")
     /\ ADSREnvelope_reset(env).stage = "Idle"
     /\ p.stage # env.stage =>
          <<env.stage, p.stage>> \in {<<"Attack", "Decay">>,
                                      <<"Decay", "Sustain">>,
                                      <<"Release", "Idle">>}
     /\ env.stage = "Sustain" =>
          /\ p.stage = "Sustain"
          /\ p.currentValue = env.sustainLevel
          /\ ADSREnvelope_process(p) = p
     /\ env.stage = "Idle" => p.stage = "Idle"
     /\ \A sec \in ReleaseInputs :
          /\ ADSREnvelope_setAttack(env, sec).stage = env.stage
          /\ ADSREnvelope_setDecay(env, sec).stage = env.stage
          /\ ADSREnvelope_setRelease(env, sec).stage = env.stage
     /\ \A lvl \in LevelInputs :
          ADSREnvelope_setSustain(env, lvl).stage = env.stage
C25_Witness ==
  /\ env.stage = "Sustain"
  /\ env.currentValue # env.sustainLevel
  /\ ADSREnvelope_process(env).currentValue = env.sustainLevel

\* C26: in every render step on the GPU path, Phase 1 gives a descriptor to
\* exactly the voices active when it starts, in pool order; descriptor 0
\* starts at oscillator 0, each next one where the one before ends, every
\* count is between 1 and kMaxPartials, the last one ends at the number of
\* oscillators submitted, and the map saved for the next call lists the
\* pool indices of those voices in strictly increasing order.
C26_DescriptorsPartitionOscillators ==
  [][(pc = "events" /\ pc' = "idle" /\ useGPU /\ outputs' # <<>>) =>
       LET blockN == updateParameters(params, voices)
           p1 == GpuPhase1(blockN, 0, 0, data.numSamples,
                           processSetup.sampleRate)
           numVoices == Len(p1.descs)
           numOsc == Len(p1.oscParams)
       IN /\ numVoices =
               Cardinality({n \in VoiceIds : KawaiiVoice_isActive(blockN[n])})
          /\ \A i \in 1 .. numVoices :
               /\ p1.descs[i].startOsc =
                    (IF i = 1 THEN 0
                     ELSE p1.descs[i - 1].startOsc + p1.descs[i - 1].numOsc)
               /\ 1 <= p1.descs[i].numOsc
               /\ p1.descs[i].numOsc <= kMaxPartials
               /\ KawaiiVoice_isActive(blockN[p1.voiceMap[i]])
               /\ i > 1 => p1.voiceMap[i - 1] < p1.voiceMap[i]
               /\ prevGpuVoiceMap'[i] = p1.voiceMap[i]
          /\ numVoices > 0 =>
               p1.descs[numVoices].startOsc + p1.descs[numVoices].numOsc
                 = numOsc
          /\ numVoices = 0 => numOsc = 0
          /\ Len(p1.envValues) = numOsc * data.numSamples
          /\ prevGpuNumVoices' = numVoices]_vars
\* Phase 1 is about to run, after a block of two voices, on two active
\* voices of which one has a partial that has fallen silent
C26_Witness ==
  /\ pc = "events" /\ data.inputEvents = <<>> /\ useGPU
  /\ data.numOutputs > 0 /\ data.symbolicSampleSize = "kSample32"
  /\ prevGpuNumVoices = 2
  /\ \A n \in VoiceIds : KawaiiVoice_isActive(voices[n])
  /\ \E n \in VoiceIds, i \in PartialIds :
       ~ADSREnvelope_isActive(voices[n].partials[i].envelope)

\* C27: on the GPU path, a NoteOn given to a voice whose results of the
\* previous call are still to be filtered leaves that voice's note number,
\* filter integrators, filter envelope stage and smoother values as they
\* were.
C27_PendingResultsKeepTheirNote ==
  [][(pc = "events" /\ data.inputEvents # <<>> /\ useGPU
        /\ metalSineBank.prevNumVoices > 0 /\ metalSineBank.prevNumSamples > 0
        /\ Head(data.inputEvents).type = "kNoteOnEvent"
        /\ Head(data.inputEvents).velocity > 0
        /\ \E i \in 1 .. prevGpuNumVoices : prevGpuVoiceMap[i] = target') =>
       /\ voices'[target'].noteNumber = voices[target'].noteNumber
       /\ voices'[target'].filter.ic1eq = voices[target'].filter.ic1eq
       /\ voices'[target'].filter.ic2eq = voices[target'].filter.ic2eq
       /\ voices'[target'].filterEnvelope.stage
            = voices[target'].filterEnvelope.stage
       /\ voices'[target'].cutoffSmoother.current
            = voices[target'].cutoffSmoother.current
       /\ voices'[target'].resoSmoother.current
            = voices[target'].resoSmoother.current]_vars

\* C28: when the last event of a block was a NoteOn that started a note and
\* rendering is about to begin, the voice it went to has, after
\* updateParameters, its cutoff smoother and its resonance smoother at
\* their targets.
C28_SmoothersAtTargetOnNoteOn ==
  (pc = "events" /\ data.inputEvents = <<>> /\ data.numOutputs > 0
     /\ data.symbolicSampleSize = "kSample32"
     /\ event.type = "kNoteOnEvent" /\ event.velocity > 0) =>
    LET v == updateParameters(params, voices)[target]
    IN /\ v.cutoffSmoother.current = v.cutoffSmoother.target
       /\ v.resoSmoother.current = v.resoSmoother.target

\* C30: in every render step on the GPU path whose numSamples is between 1
\* and the maximum block size of the activation, Phase 1 submits at most
\* kMaxVoices * kMaxPartials oscillators and at most kMaxVoices descriptors,
\* every oscillator, envelope-value and descriptor index it writes is below
\* the size the buffer was given at activation, and every index Phase 3
\* reads in the per-voice output (slot * prevNumSamples + s) is below
\* kMaxVoices * maxBlock, the size of that buffer.
C30_BatchIndicesInBounds ==
  [][(pc = "events" /\ pc' = "idle" /\ useGPU /\ outputs' # <<>>
        /\ 1 <= data.numSamples
        /\ data.numSamples <= (IF processSetup.maxSamplesPerBlock <= 0 THEN 4096
                               ELSE processSetup.maxSamplesPerBlock)) =>
       LET p1 == GpuPhase1(updateParameters(params, voices), 0, 0,
                           data.numSamples, processSetup.sampleRate)
           maxBlock == IF processSetup.maxSamplesPerBlock <= 0 THEN 4096
                       ELSE processSetup.maxSamplesPerBlock
           numOsc == Len(p1.oscParams)
           prevNumVoices == metalSineBank.prevNumVoices
           prevNumSamples == metalSineBank.prevNumSamples
       IN /\ numOsc <= kMaxVoices * kMaxPartials
          /\ numOsc <= gpuBufferSizes.gpuOscParams
          /\ \A osc \in 0 .. numOsc - 1 : \A s \in 0 .. data.numSamples - 1 :
               /\ osc * data.numSamples + s < gpuBufferSizes.gpuEnvValues
               /\ osc * data.numSamples + s
                    < kMaxVoices * kMaxPartials * maxBlock
          /\ Len(p1.envValues) = numOsc * data.numSamples
          /\ Len(p1.descs) <= kMaxVoices
          /\ Len(p1.descs) <= gpuBufferSizes.gpuVoiceDescs
          /\ \A i \in 1 .. Len(p1.descs) :
               p1.descs[i].startOsc + p1.descs[i].numOsc <= numOsc
          /\ (prevNumVoices > 0 /\ prevNumSamples > 0) =>
               /\ phase3Samples' = Min(prevNumSamples, data.numSamples)
               /\ \A slot \in 0 .. prevNumVoices - 1 :
                    /\ slot + 1 <= prevGpuNumVoices
                    /\ prevGpuVoiceMap[slot + 1] \in VoiceIds
                    /\ \A s \in 0 .. phase3Samples' - 1 :
                         /\ slot * prevNumSamples + s
                              < gpuBufferSizes.gpuPerVoiceOutput
                         /\ slot * prevNumSamples + s < kMaxVoices * maxBlock]_vars
\* after a block of the maximum size with every voice submitted, Phase 1 is
\* about to run on a block of the maximum size with every oscillator of
\* every voice sounding
C30_Witness ==
  /\ pc = "events" /\ data.inputEvents = <<>> /\ useGPU
  /\ data.numOutputs > 0 /\ data.symbolicSampleSize = "kSample32"
  /\ data.numSamples = processSetup.maxSamplesPerBlock
  /\ metalSineBank.prevNumVoices = kMaxVoices
  /\ metalSineBank.prevNumSamples = processSetup.maxSamplesPerBlock
  /\ gpuBufferSizes.gpuPerVoiceOutput
       = kMaxVoices * processSetup.maxSamplesPerBlock
  /\ \A n \in VoiceIds : \A i \in PartialIds :
       ADSREnvelope_isActive(voices[n].partials[i].envelope)
====
